---- MODULE Spec2Model ----
(***************************************************************************)
(* Verification model of codex-wakatime: the activity extractor            *)
(* (extractor.ts), the turn orchestrator (index.ts) and the collaborators  *)
(* it calls (state.ts, wakatime.ts, dependencies.ts).                      *)
(*                                                                         *)
(* Strings are sequences of one-character strings, so that the regular     *)
(* expressions of the extractor and the path functions of node:path are    *)
(* computed character by character, as the code computes them.             *)
(***************************************************************************)
EXTENDS Integers, Sequences, FiniteSets, TLC

(***************************************************************************)
(* Bounds of the model.                                                    *)
(***************************************************************************)
\* the largest number of phrases concatenated into one assistant message
MaxFrags == 2
\* the number of process invocations (turns) of one behaviour
MaxTurns == 2
\* the number of clock advances of one behaviour
MaxTicks == 2

(***************************************************************************)
(* Characters and character classes of the regular expressions.            *)
(***************************************************************************)
LowerLetters ==
  {"a","b","c","d","e","f","g","h","i","j","k","l","m",
   "n","o","p","q","r","s","t","u","v","w","x","y","z"}

UpperToLower ==
  ("A" :> "a") @@ ("B" :> "b") @@ ("C" :> "c") @@ ("D" :> "d") @@
  ("E" :> "e") @@ ("F" :> "f") @@ ("G" :> "g") @@ ("H" :> "h") @@
  ("I" :> "i") @@ ("J" :> "j") @@ ("K" :> "k") @@ ("L" :> "l") @@
  ("M" :> "m") @@ ("N" :> "n") @@ ("O" :> "o") @@ ("P" :> "p") @@
  ("Q" :> "q") @@ ("R" :> "r") @@ ("S" :> "s") @@ ("T" :> "t") @@
  ("U" :> "u") @@ ("V" :> "v") @@ ("W" :> "w") @@ ("X" :> "x") @@
  ("Y" :> "y") @@ ("Z" :> "z")

UpperLetters == DOMAIN UpperToLower

Digits == {"0","1","2","3","4","5","6","7","8","9"}

\* the backtick character (the one character a string literal cannot hold)
Backtick == "BACKTICK"

\* \w
WordChars == LowerLetters \cup UpperLetters \cup Digits \cup {"_"}

\* \s (the white space that the messages of the model contain)
SpaceChars == {" ", "\t", "\n", "\r"}

\* String.prototype.toLowerCase, one character
ToLowerChar(c) == IF c \in UpperLetters THEN UpperToLower[c] ELSE c

\* String.prototype.toLowerCase
ToLowerCase(s) == [i \in 1..Len(s) |-> ToLowerChar(s[i])]

\* s.slice(from - 1, to - 1): the characters at positions from .. to-1
Slice(s, from, to) == SubSeq(s, from, to - 1)

\* the end of the longest run of characters outside Stop that starts at i:
\* the first position >= i that holds a character of Stop, or Len(s) + 1
RECURSIVE RunEndNot(_, _, _)
RunEndNot(s, i, Stop) ==
  IF i > Len(s) \/ s[i] \in Stop THEN i ELSE RunEndNot(s, i + 1, Stop)

\* the end of the longest run of characters of Class that starts at i
RECURSIVE RunEndIn(_, _, _)
RunEndIn(s, i, Class) ==
  IF i > Len(s) \/ s[i] \notin Class THEN i ELSE RunEndIn(s, i + 1, Class)

\* the last position in from .. to-1 that holds a dot followed by a word
\* character, 0 when there is none
RECURSIVE LastExtDot(_, _, _)
LastExtDot(s, from, to) ==
  IF to - 1 < from THEN 0
  ELSE IF s[to - 1] = "." /\ to <= Len(s) /\ s[to] \in WordChars THEN to - 1
  ELSE LastExtDot(s, from, to - 1)

\* String.prototype.trim
RECURSIVE TrimEnd(_)
TrimEnd(s) ==
  IF Len(s) > 0 /\ s[Len(s)] \in SpaceChars
  THEN TrimEnd(SubSeq(s, 1, Len(s) - 1)) ELSE s

Trim(s) ==
  LET k == RunEndIn(s, 1, SpaceChars) IN TrimEnd(SubSeq(s, k, Len(s)))

(***************************************************************************)
(* node:path, POSIX flavour.                                               *)
(***************************************************************************)
\* the segments of p between its slashes (empty segments included)
RECURSIVE SplitSlash(_)
SplitSlash(p) ==
  LET k == RunEndNot(p, 1, {"/"}) IN
    IF k > Len(p) THEN <<p>>
    ELSE <<SubSeq(p, 1, k - 1)>> \o SplitSlash(SubSeq(p, k + 1, Len(p)))

\* the segments joined by slashes
RECURSIVE JoinSlash(_)
JoinSlash(segs) ==
  IF Len(segs) = 0 THEN <<>>
  ELSE IF Len(segs) = 1 THEN segs[1]
  ELSE segs[1] \o <<"/">> \o JoinSlash(Tail(segs))

\* normalizeString: resolves the . and .. segments, left to right; res is
\* the list of segments kept so far
RECURSIVE NormalizeSegs(_, _, _)
NormalizeSegs(segs, res, allowAboveRoot) ==
  IF Len(segs) = 0 THEN res
  ELSE
    LET seg == Head(segs)
        next ==
          IF seg = <<>> \/ seg = <<".">> THEN res
          ELSE IF seg = <<".", ".">> THEN
            IF Len(res) > 0 /\ res[Len(res)] # <<".", ".">>
            THEN SubSeq(res, 1, Len(res) - 1)
            ELSE IF allowAboveRoot THEN Append(res, seg) ELSE res
          ELSE Append(res, seg)
    IN NormalizeSegs(Tail(segs), next, allowAboveRoot)

\* path.isAbsolute
IsAbsolute(p) == Len(p) > 0 /\ p[1] = "/"

\* path.normalize
Normalize(p) ==
  IF Len(p) = 0 THEN <<".">>
  ELSE
    LET isAbs    == IsAbsolute(p)
        trailing == p[Len(p)] = "/"
        body     == JoinSlash(NormalizeSegs(SplitSlash(p), <<>>, ~isAbs))
    IN IF Len(body) = 0
       THEN (IF isAbs THEN <<"/">> ELSE IF trailing THEN <<".", "/">> ELSE <<".">>)
       ELSE (IF isAbs THEN <<"/">> ELSE <<>>) \o body
            \o (IF trailing THEN <<"/">> ELSE <<>>)

\* path.join of two arguments: the non-empty ones joined by a slash, normalized
PathJoin(a, b) ==
  LET joined == IF Len(a) = 0 THEN b
                ELSE IF Len(b) = 0 THEN a
                ELSE a \o <<"/">> \o b
  IN IF Len(joined) = 0 THEN <<".">> ELSE Normalize(joined)

\* p without its trailing slashes
RECURSIVE StripTrailingSlashes(_)
StripTrailingSlashes(p) ==
  IF Len(p) > 0 /\ p[Len(p)] = "/"
  THEN StripTrailingSlashes(SubSeq(p, 1, Len(p) - 1)) ELSE p

\* the last position of character c in s, 0 when s does not hold it
RECURSIVE LastIndexOf(_, _)
LastIndexOf(s, c) ==
  IF Len(s) = 0 THEN 0
  ELSE IF s[Len(s)] = c THEN Len(s)
  ELSE LastIndexOf(SubSeq(s, 1, Len(s) - 1), c)

\* path.basename (no suffix argument): the last segment, trailing slashes
\* ignored
Basename(p) ==
  LET q == StripTrailingSlashes(p)
      k == LastIndexOf(q, "/")
  IN SubSeq(q, k + 1, Len(q))

\* path.extname: from the last dot of the last segment; empty when there is
\* no dot, when the dot starts the segment, or when the segment is ".."
Extname(p) ==
  LET seg == Basename(p)
      d   == LastIndexOf(seg, ".")
  IN IF d = 0 \/ d = 1 \/ seg = <<".", ".">> THEN <<>>
     ELSE SubSeq(seg, d, Len(seg))

(***************************************************************************)
(* The regular expressions of extractor.ts.  A match is <<from, to, end>>: *)
(* the capture group is s[from .. to-1] and the whole match ends before    *)
(* position end; NoMatch when the expression does not match at i.          *)
(***************************************************************************)
NoMatch == <<>>

\* (?:Read|List), lower case: the expression has the i flag
READ_VERBS ==
  { <<"r","e","a","d">>, <<"l","i","s","t">> }

\* (?:Create|Created|Modify|Modified|Update|Updated|Write|Wrote|Edit|Edited|
\*    Delete|Deleted), lower case: the expression has the i flag
WRITE_VERBS ==
  { <<"c","r","e","a","t","e">>, <<"c","r","e","a","t","e","d">>,
    <<"m","o","d","i","f","y">>, <<"m","o","d","i","f","i","e","d">>,
    <<"u","p","d","a","t","e">>, <<"u","p","d","a","t","e","d">>,
    <<"w","r","i","t","e">>,     <<"w","r","o","t","e">>,
    <<"e","d","i","t">>,         <<"e","d","i","t","e","d">>,
    <<"d","e","l","e","t","e">>, <<"d","e","l","e","t","e","d">> }

\* the longest extension the expressions capture: \w{1,6}
MaxExtRun == 6

\* the verb v is at position i of s, whatever the case of the letters
VerbAt(s, i, v) ==
  /\ i + Len(v) - 1 <= Len(s)
  /\ \A k \in 1..Len(v) : ToLowerChar(s[i + k - 1]) = v[k]

\* /```\w*:([^\n`]+)/ at i
MatchCodeBlock(s, i) ==
  IF ~(i + 2 <= Len(s) /\ s[i] = Backtick /\ s[i + 1] = Backtick /\ s[i + 2] = Backtick)
  THEN NoMatch
  ELSE
    LET j == RunEndIn(s, i + 3, WordChars) IN
      IF ~(j <= Len(s) /\ s[j] = ":") THEN NoMatch
      ELSE
        LET k == RunEndNot(s, j + 1, {"\n", Backtick}) IN
          IF k = j + 1 THEN NoMatch ELSE <<j + 1, k, k>>

\* /D([^D\s]+\.\w{1,6})D/ at i, D one of the characters of Delims: the
\* capture is the whole run up to the closing delimiter, and its last dot is
\* followed by 1 to 6 word characters and preceded by at least one character
MatchDelimited(s, i, Delims) ==
  IF ~(i <= Len(s) /\ s[i] \in Delims) THEN NoMatch
  ELSE
    LET k == RunEndNot(s, i + 1, Delims \cup SpaceChars)
        d == LastIndexOf(SubSeq(s, i + 1, k - 1), ".") + i
    IN IF /\ k <= Len(s)
          /\ s[k] \in Delims
          /\ d > i + 1
          /\ k - d - 1 >= 1
          /\ k - d - 1 <= MaxExtRun
          /\ \A x \in (d + 1)..(k - 1) : s[x] \in WordChars
       THEN <<i + 1, k, k + 1>>
       ELSE NoMatch

\* /`([^`\s]+\.\w{1,6})`/ at i
MatchBacktick(s, i) == MatchDelimited(s, i, {Backtick})

\* the quoted-path expression (D a single or a double quote) at i
MatchQuote(s, i) == MatchDelimited(s, i, {"\"", "'"})

\* \s+`?([^\s`\n]+\.\w{1,6})`? at j, the tail of the action expressions: the
\* greedy run backtracks to its last dot that a word character follows, the
\* extension takes up to 6 word characters, a closing backtick is optional
MatchActionTail(s, j) ==
  LET ws == RunEndIn(s, j, SpaceChars) IN
    IF ws = j THEN NoMatch
    ELSE
      LET b == IF ws <= Len(s) /\ s[ws] = Backtick THEN ws + 1 ELSE ws
          k == RunEndNot(s, b, SpaceChars \cup {Backtick})
          d == LastExtDot(s, b + 1, k)
      IN IF d = 0 THEN NoMatch
         ELSE
           LET w  == RunEndIn(s, d + 1, WordChars)
               to == IF w - (d + 1) > MaxExtRun THEN d + 1 + MaxExtRun ELSE w
           IN <<b, to, IF to <= Len(s) /\ s[to] = Backtick THEN to + 1 ELSE to>>

\* /(?:V1|V2|...)\s+`?([^\s`\n]+\.\w{1,6})`?/gi at i.  Two verbs that both
\* stand at i are one a prefix of the other, and white space cannot follow
\* both, so at most one alternative matches
MatchAction(s, i, Verbs) ==
  LET hits == { m \in { MatchActionTail(s, i + Len(v)) :
                          v \in { u \in Verbs : VerbAt(s, i, u) } } :
                m # NoMatch }
  IN IF hits = {} THEN NoMatch ELSE CHOOSE m \in hits : TRUE

\* one expression at position i
MatchAt(kind, s, i) ==
  CASE kind = "codeblock" -> MatchCodeBlock(s, i)
    [] kind = "backtick"  -> MatchBacktick(s, i)
    [] kind = "quote"     -> MatchQuote(s, i)
    [] kind = "read"      -> MatchAction(s, i, READ_VERBS)
    [] kind = "write"     -> MatchAction(s, i, WRITE_VERBS)
    [] kind = "action"    -> MatchAction(s, i, READ_VERBS \cup WRITE_VERBS)

\* message.matchAll(pattern): the capture groups of the successive leftmost
\* matches, each search starting where the previous match ended
RECURSIVE MatchAllFrom(_, _, _)
MatchAllFrom(kind, s, i) ==
  IF i > Len(s) THEN <<>>
  ELSE
    LET m == MatchAt(kind, s, i) IN
      IF m = NoMatch THEN MatchAllFrom(kind, s, i + 1)
      ELSE <<Slice(s, m[1], m[2])>> \o MatchAllFrom(kind, s, m[3])

MatchAll(kind, s) == MatchAllFrom(kind, s, 1)

\* READ_PATTERNS with the read verbs before the other expressions
READ_PATTERNS_VerbsFirst == <<"read", "codeblock", "backtick", "quote">>

\* the expressions of extractFiles' second pass, in their order
READ_PATTERNS == <<"codeblock", "backtick", "quote", "read">>

\* the expression of extractFiles' first pass
WRITE_PATTERN == "write"

\* the expressions of extractFilePaths, in their order
PATTERNS == <<"codeblock", "backtick", "action", "quote">>

(***************************************************************************)
(* extractor.ts                                                            *)
(***************************************************************************)
\* a value of type string | null: <<>> is null (or undefined), <<text>> is
\* the string text
Null == <<>>
Str(text) == <<text>>
IsNull(v) == Len(v) = 0
TextOf(v) == v[1]

\* String.prototype.includes
Includes(s, sub) ==
  \E i \in 1..(Len(s) - Len(sub) + 1) : SubSeq(s, i, i + Len(sub) - 1) = sub

\* /[<>|?*]/
InvalidPathChars == {"<", ">", "|", "?", "*"}

\* the longest extension isValidFilePath accepts
MaxExtLen == 6

\* isValidFilePath without the test for a URL
isValidFilePath_NoUrlCheck(p) ==
  IF Len(p) = 0 THEN FALSE
  ELSE IF \E i \in 1..Len(p) : p[i] \in InvalidPathChars THEN FALSE
  ELSE
    LET dotExt == Extname(p)
        ext    == ToLowerCase(SubSeq(dotExt, 2, Len(dotExt)))
    IN Len(ext) > 0 /\ Len(ext) <= MaxExtLen

\* isValidFilePath
isValidFilePath(p) ==
  IF Len(p) = 0 THEN FALSE
  ELSE IF Includes(p, <<":", "/", "/">>) THEN FALSE
  ELSE IF \E i \in 1..Len(p) : p[i] \in InvalidPathChars THEN FALSE
  ELSE
    LET dotExt == Extname(p)
        ext    == ToLowerCase(SubSeq(dotExt, 2, Len(dotExt)))
    IN IF Len(ext) = 0 THEN FALSE
       ELSE IF Len(ext) > MaxExtLen THEN FALSE
       ELSE TRUE

\* normalizePath without the test path.isAbsolute: every path is joined to cwd
normalizePath_AlwaysJoin(filePath, cwd) == PathJoin(cwd, Trim(filePath))

\* normalizePath
normalizePath(filePath, cwd) ==
  LET cleaned == Trim(filePath) IN
    IF IsAbsolute(cleaned) THEN Normalize(cleaned)
    ELSE PathJoin(cwd, cleaned)

\* VALID_EXTENSIONS: the extensions commonly tracked
VALID_EXTENSIONS ==
  { <<"j","s">>, <<"t","s">>, <<"j","s","x">>, <<"t","s","x">>,
    <<"m","j","s">>, <<"c","j","s">>, <<"m","t","s">>, <<"c","t","s">>,
    <<"h","t","m","l">>, <<"h","t","m">>, <<"c","s","s">>,
    <<"s","c","s","s">>, <<"s","a","s","s">>, <<"l","e","s","s">>,
    <<"v","u","e">>, <<"s","v","e","l","t","e">>, <<"j","s","o","n">>,
    <<"y","a","m","l">>, <<"y","m","l">>, <<"t","o","m","l">>,
    <<"x","m","l">>, <<"c","s","v">>, <<"p","y">>, <<"r","b">>, <<"g","o">>,
    <<"r","s">>, <<"j","a","v","a">>, <<"k","t">>, <<"k","t","s">>,
    <<"s","c","a","l","a">>, <<"c">>, <<"c","p","p">>, <<"c","c">>,
    <<"c","x","x">>, <<"h">>, <<"h","p","p">>, <<"c","s">>, <<"f","s">>,
    <<"s","w","i","f","t">>, <<"m">>, <<"m","m">>, <<"s","h">>,
    <<"b","a","s","h">>, <<"z","s","h">>, <<"f","i","s","h">>,
    <<"p","s","1">>, <<"b","a","t">>, <<"c","m","d">>, <<"m","d">>,
    <<"m","d","x">>, <<"r","s","t">>, <<"t","x","t">>, <<"s","q","l">>,
    <<"g","r","a","p","h","q","l">>, <<"g","q","l">>,
    <<"p","r","o","t","o">>, <<"e","n","v">>, <<"l","o","c","k">>,
    <<"d","o","c","k","e","r","f","i","l","e">> }

\* isTrackableExtension
isTrackableExtension(filePath) ==
  LET dotExt == Extname(filePath)
      ext    == ToLowerCase(SubSeq(dotExt, 2, Len(dotExt)))
  IN ext \in VALID_EXTENSIONS

\* a list in place of the Set: add appends whether or not x is present
SetAdd_Append(files, x) == Append(files, x)

\* Set.prototype.add on an insertion-ordered set kept as a sequence
SetAdd(files, x) ==
  IF \E i \in 1..Len(files) : files[i] = x THEN files ELSE Append(files, x)

\* the body of extractFilePaths' inner loop, over the captures of one
\* expression
RECURSIVE AddPaths(_, _, _)
AddPaths(files, caps, cwd) ==
  IF Len(caps) = 0 THEN files
  ELSE
    LET filePath == Head(caps)
        next == IF Len(filePath) > 0 /\ isValidFilePath(filePath)
                THEN SetAdd(files, normalizePath(filePath, cwd))
                ELSE files
    IN AddPaths(next, Tail(caps), cwd)

\* the outer loop of extractFilePaths, over the expressions from the k-th on
RECURSIVE PathsPass(_, _, _, _)
PathsPass(files, k, text, cwd) ==
  IF k > Len(PATTERNS) THEN files
  ELSE PathsPass(AddPaths(files, MatchAll(PATTERNS[k], text), cwd),
                 k + 1, text, cwd)

\* extractFilePaths: the paths in insertion order
extractFilePaths(message, cwd) ==
  IF IsNull(message) \/ Len(TextOf(message)) = 0 THEN <<>>
  ELSE PathsPass(<<>>, 1, TextOf(message), cwd)

\* Map.prototype.has on an insertion-ordered map kept as a sequence of
\* [path, isWrite] entries
MapHas(fileMap, key) == \E i \in 1..Len(fileMap) : fileMap[i].path = key

\* Map.prototype.set that drops the value: every entry is a read
MapSet_AlwaysRead(fileMap, key, value) ==
  IF MapHas(fileMap, key)
  THEN [i \in 1..Len(fileMap) |->
          IF fileMap[i].path = key THEN [path |-> key, isWrite |-> FALSE]
          ELSE fileMap[i]]
  ELSE Append(fileMap, [path |-> key, isWrite |-> FALSE])

\* Map.prototype.set: a present key keeps its place and takes the new value
MapSet(fileMap, key, value) ==
  IF MapHas(fileMap, key)
  THEN [i \in 1..Len(fileMap) |->
          IF fileMap[i].path = key THEN [path |-> key, isWrite |-> value]
          ELSE fileMap[i]]
  ELSE Append(fileMap, [path |-> key, isWrite |-> value])

\* the first loop of extractFiles, over the captures of WRITE_PATTERN
RECURSIVE AddWrites(_, _, _)
AddWrites(fileMap, caps, cwd) ==
  IF Len(caps) = 0 THEN fileMap
  ELSE
    LET filePath == Head(caps)
        next == IF Len(filePath) > 0 /\ isValidFilePath(filePath)
                THEN MapSet(fileMap, normalizePath(filePath, cwd), TRUE)
                ELSE fileMap
    IN AddWrites(next, Tail(caps), cwd)

\* AddRead without its test fileMap.has(normalized): a later read match
\* overwrites the entry
AddRead_Overwrite(fileMap, normalized) == MapSet(fileMap, normalized, FALSE)

\* one read match of extractFiles' second loop: added as a read unless the
\* path is already in the map
AddRead(fileMap, normalized) ==
  IF ~MapHas(fileMap, normalized) THEN MapSet(fileMap, normalized, FALSE)
  ELSE fileMap

\* the inner loop of extractFiles' second loop, over the captures of one
\* read expression
RECURSIVE AddReads(_, _, _)
AddReads(fileMap, caps, cwd) ==
  IF Len(caps) = 0 THEN fileMap
  ELSE
    LET filePath == Head(caps)
        next == IF Len(filePath) > 0 /\ isValidFilePath(filePath)
                THEN AddRead(fileMap, normalizePath(filePath, cwd))
                ELSE fileMap
    IN AddReads(next, Tail(caps), cwd)

\* the second loop of extractFiles, over READ_PATTERNS from the k-th on
RECURSIVE ReadPass(_, _, _, _)
ReadPass(fileMap, k, text, cwd) ==
  IF k > Len(READ_PATTERNS) THEN fileMap
  ELSE ReadPass(AddReads(fileMap, MatchAll(READ_PATTERNS[k], text), cwd),
                k + 1, text, cwd)

\* extractFiles without its guard: matchAll of a null message is a TypeError
extractFiles_NoGuard(message, cwd) ==
  IF IsNull(message) THEN <<"TypeError">>
  ELSE
    LET text   == TextOf(message)
        afterW == AddWrites(<<>>, MatchAll(WRITE_PATTERN, text), cwd)
    IN ReadPass(afterW, 1, text, cwd)

\* extractFiles: the [path, isWrite] records in the map's insertion order
extractFiles(message, cwd) ==
  IF IsNull(message) \/ Len(TextOf(message)) = 0 THEN <<>>
  ELSE
    LET text     == TextOf(message)
        afterW   == AddWrites(<<>>, MatchAll(WRITE_PATTERN, text), cwd)
    IN ReadPass(afterW, 1, text, cwd)
(***************************************************************************)
(* The inputs of the extractor: messages made of at most MaxFrags phrases,  *)
(* and two working directories.                                            *)
(***************************************************************************)
\* a write verb and a bare relative path
FragEdit ==
  <<" ", "E", "d", "i", "t", " ", "a", ".", "t", "s">>

\* a write verb and a path in backticks, then a full stop
FragCreated ==
  <<" ", "C", "r", "e", "a", "t", "e", "d", " ", Backtick, "a", ".", "t",
    "s", Backtick, ".">>

\* a read verb in lower case and another spelling of a.ts
FragReadDot ==
  <<" ", "r", "e", "a", "d", " ", ".", "/", "a", ".", "t", "s">>

\* a read verb and a path in backticks
FragReadTick ==
  <<" ", "R", "e", "a", "d", " ", Backtick, "b", ".", "m", "d",
    Backtick>>

\* a path in backticks that climbs out of cwd
FragTickUp ==
  <<" ", Backtick, ".", ".", "/", "a", ".", "t", "s", Backtick>>

\* a path in single quotes
FragQuote ==
  <<" ", "'", "b", ".", "m", "d", "'">>

\* a code-block header with a language tag
FragBlock ==
  <<"\n", Backtick, Backtick, Backtick, "t", "s", ":", "a", ".", "t", "s",
    "\n">>

\* a code-block header whose extension has 7 characters
FragBlockLong ==
  <<"\n", Backtick, Backtick, Backtick, ":", "n", ".", "t", "o", "o", "l",
    "o", "n", "g", "\n">>

\* a code-block header without a language tag, its path between spaces
FragBlockPad ==
  <<"\n", Backtick, Backtick, Backtick, ":", " ", ".", "/", "a", ".", "t",
    "s", " ", "\n">>

\* a read verb and a URL
FragUrl ==
  <<" ", "L", "i", "s", "t", " ", "h", "t", "t", "p", ":", "/", "/", "x",
    ".", "i", "o", "/", "a", ".", "t", "s">>

\* a quoted string with a character no path holds
FragBadChar ==
  <<" ", "\"", "a", "<", "b", ".", "t", "s", "\"">>

\* a write verb and an absolute path
FragWroteAbs ==
  <<" ", "W", "r", "o", "t", "e", " ", "/", "p", "/", "a", ".", "t",
    "s">>

\* a read verb and a path whose extension spells a write verb
FragVerbExt ==
  <<" ", "L", "i", "s", "t", " ", "c", ".", "E", "d", "i", "t">>

\* prose without a path
FragProse ==
  <<" ", "o", "k">>

Fragments ==
  { FragEdit, FragCreated, FragReadDot, FragReadTick,
    FragTickUp, FragQuote, FragBlock, FragBlockLong,
    FragUrl, FragBadChar, FragWroteAbs, FragVerbExt,
    FragProse, FragBlockPad }

CwdP == <<"/", "p">>
CwdPQ == <<"/", "p", "/", "q">>
Cwds == {CwdP, CwdPQ}

\* the concatenation of a sequence of phrases
RECURSIVE Concat(_)
Concat(fs) == IF Len(fs) = 0 THEN <<>> ELSE Head(fs) \o Concat(Tail(fs))

\* the message texts of at most n phrases
TextsUpTo(n) ==
  { Concat(fs) : fs \in UNION { [1..k -> Fragments] : k \in 0..n } }

\* the messages given to the extractor: null, and every text
MessageInputs == {Null} \cup { Str(t) : t \in TextsUpTo(MaxFrags) }

(***************************************************************************)
(* state.ts: the rate limiter.  The file ~/.wakatime/codex.json is missing, *)
(* malformed, or JSON text of a State object whose lastHeartbeatAt may be  *)
(* absent.  Time is counted in seconds.                                    *)
(***************************************************************************)
RATE_LIMIT_SECONDS == 60

FileMissing   == [kind |-> "missing",   has |-> FALSE, lastHeartbeatAt |-> 0]
FileMalformed == [kind |-> "malformed", has |-> FALSE, lastHeartbeatAt |-> 0]
FileEmptyJson == [kind |-> "json",      has |-> FALSE, lastHeartbeatAt |-> 0]
FileWith(t)   == [kind |-> "json",      has |-> TRUE,  lastHeartbeatAt |-> t]

\* the State read from the file: a file that cannot be read or parsed gives
\* the State without a timestamp
readState(file) ==
  IF file.kind = "json"
  THEN [has |-> file.has, lastHeartbeatAt |-> file.lastHeartbeatAt]
  ELSE [has |-> FALSE, lastHeartbeatAt |-> 0]

\* isDue with > for >=
isDue_Strict(state, t) ==
  ~state.has \/ t - state.lastHeartbeatAt > RATE_LIMIT_SECONDS

\* isDue: no timestamp, or at least RATE_LIMIT_SECONDS since the timestamp
isDue(state, t) ==
  ~state.has \/ t - state.lastHeartbeatAt >= RATE_LIMIT_SECONDS

\* shouldSendHeartbeat(), called at time t with the file as it is
shouldSendHeartbeat(file, t) == isDue(readState(file), t)

\* updateLastHeartbeat(), called at time t: the content written
updateLastHeartbeat(t) == FileWith(t)

(***************************************************************************)
(* index.ts: the argument of one invocation, process.argv[2].              *)
(***************************************************************************)
AGENT_TURN_COMPLETE == "agent-turn-complete"

NoNotification ==
  [type |-> "", message |-> Null, cwd |-> <<>>]

\* a JSON text that parses to a CodexNotification
ArgJson(type, message, cwd) ==
  [kind |-> "json",
   value |-> [type |-> type, message |-> message, cwd |-> cwd]]

\* no argument, an argument that starts with "-", a text that is no JSON,
\* and JSON text of a falsy value (null)
ArgMissing   == [kind |-> "missing",   value |-> NoNotification]
ArgFlag      == [kind |-> "flag",      value |-> NoNotification]
ArgMalformed == [kind |-> "malformed", value |-> NoNotification]
ArgJsonNull  == [kind |-> "null",      value |-> NoNotification]

\* the messages of the notifications: absent, without a path, with one
\* written file, with one written and one read file
TurnMessages ==
  { Null,
    Str(FragProse),
    Str(FragCreated),
    Str(FragReadTick \o FragEdit) }

Args ==
  { ArgMissing, ArgFlag, ArgMalformed, ArgJsonNull,
    ArgJson("session-start", Str(FragEdit), CwdP) }
  \cup { ArgJson(AGENT_TURN_COMPLETE, m, CwdPQ) : m \in TurnMessages }

\* parseNotification: the notification, or undefined (FALSE as found)
parseNotification(arg) ==
  IF arg.kind = "missing" THEN [found |-> FALSE, value |-> NoNotification]
  ELSE IF arg.kind = "flag" THEN [found |-> FALSE, value |-> NoNotification]
  ELSE IF arg.kind = "malformed" THEN [found |-> FALSE, value |-> NoNotification]
  ELSE [found |-> arg.kind # "null", value |-> arg.value]

(***************************************************************************)
(* wakatime.ts: the heartbeats.                                            *)
(***************************************************************************)
\* FileHeartbeat without the write flag of the record
FileHeartbeat_NoWriteFlag(file, cwd) ==
  [entity        |-> file.path,
   entityType    |-> "file",
   category      |-> "ai coding",
   projectFolder |-> Str(cwd),
   project       |-> Null,
   isWrite       |-> <<FALSE>>]

\* the HeartbeatParams of a file of the message
FileHeartbeat(file, cwd) ==
  [entity        |-> file.path,
   entityType    |-> "file",
   category      |-> "ai coding",
   projectFolder |-> Str(cwd),
   project       |-> Null,
   isWrite       |-> <<file.isWrite>>]

\* ProjectHeartbeat with the whole cwd as the project
ProjectHeartbeat_FullPath(cwd) ==
  [entity        |-> cwd,
   entityType    |-> "app",
   category      |-> "ai coding",
   projectFolder |-> Null,
   project       |-> Str(cwd),
   isWrite       |-> <<>>]

\* the HeartbeatParams of the project-level fallback
ProjectHeartbeat(cwd) ==
  [entity        |-> cwd,
   entityType    |-> "app",
   category      |-> "ai coding",
   projectFolder |-> Null,
   project       |-> Str(Basename(cwd)),
   isWrite       |-> <<>>]

(***************************************************************************)
(* The state.                                                              *)
(***************************************************************************)
Turns == 1..MaxTurns

\* the clock advances by one of these numbers of seconds
TickSteps == {1, RATE_LIMIT_SECONDS - 1}

(***************************************************************************)
(* install.ts: the notify hook in ~/.codex/config.toml.  A text is a        *)
(* sequence of characters.  A parsed value is [type, data]: an array holds  *)
(* its items, a string its text, a boolean "true" or "false", a number its  *)
(* decimal digits, a section its [key, value] entries.  An object is the    *)
(* sequence of its [key, value] entries in insertion order.                *)
(***************************************************************************)
\* String.prototype.startsWith and endsWith
StartsWith(s, p) == Len(s) >= Len(p) /\ SubSeq(s, 1, Len(p)) = p
EndsWith(s, p) == Len(s) >= Len(p) /\ SubSeq(s, Len(s) - Len(p) + 1, Len(s)) = p

\* String.prototype.split on one character
RECURSIVE SplitOn(_, _)
SplitOn(s, c) ==
  LET k == RunEndNot(s, 1, {c}) IN
    IF k > Len(s) THEN <<s>>
    ELSE <<SubSeq(s, 1, k - 1)>> \o SplitOn(SubSeq(s, k + 1, Len(s)), c)

\* Array.prototype.join
RECURSIVE JoinWith(_, _)
JoinWith(parts, sep) ==
  IF Len(parts) = 0 THEN <<>>
  ELSE IF Len(parts) = 1 THEN parts[1]
  ELSE parts[1] \o sep \o JoinWith(Tail(parts), sep)

\* s.slice(1, -1)
Inner(s) == SubSeq(s, 2, Len(s) - 1)

\* the string starts and ends with a double quote, or with a single quote
IsQuoted(s) ==
  \/ StartsWith(s, <<"\"">>) /\ EndsWith(s, <<"\"">>)
  \/ StartsWith(s, <<"'">>) /\ EndsWith(s, <<"'">>)

ArrayValue(items) == [type |-> "array", data |-> items]
StringValue(text) == [type |-> "string", data |-> <<text>>]
BooleanValue(b) == [type |-> "boolean", data |-> <<IF b THEN "true" ELSE "false">>]
NumberValue(digits) == [type |-> "number", data |-> <<digits>>]
SectionValue(entries) == [type |-> "section", data |-> entries]

\* the value is falsy: the empty string, false, or 0
IsFalsy(v) ==
  \/ v.type = "string" /\ v.data = << <<>> >>
  \/ v.type = "boolean" /\ v.data = <<"false">>
  \/ v.type = "number" /\ v.data = << <<"0">> >>

\* Number(value) is a number: the values of the model that are numbers are
\* the empty string and the strings of decimal digits
IsNumeric(value) == \A i \in 1..Len(value) : value[i] \in Digits

\* String(Number(value)) of such a value: no leading zero, 0 for the empty
\* string
RECURSIVE NumberText(_)
NumberText(value) ==
  IF Len(value) = 0 THEN <<"0">>
  ELSE IF Len(value) > 1 /\ value[1] = "0" THEN NumberText(Tail(value))
  ELSE value

\* one item of an array: trimmed, its quotes removed
ParseItem(item) ==
  LET trimmedItem == Trim(item) IN
    IF IsQuoted(trimmedItem) THEN Inner(trimmedItem) ELSE trimmedItem

\* parseToml's reading of the text after the equals sign
ParseValue(value) ==
  IF StartsWith(value, <<"[">>) /\ EndsWith(value, <<"]">>)
  THEN LET arrayContent == Trim(Inner(value))
           parts == SplitOn(arrayContent, ",")
       IN IF Len(arrayContent) > 0
          THEN ArrayValue([i \in 1..Len(parts) |-> ParseItem(parts[i])])
          ELSE ArrayValue(<<>>)
  ELSE IF IsQuoted(value) THEN StringValue(Inner(value))
  ELSE IF value = <<"t", "r", "u", "e">> THEN BooleanValue(TRUE)
  ELSE IF value = <<"f", "a", "l", "s", "e">> THEN BooleanValue(FALSE)
  ELSE IF IsNumeric(value) THEN NumberValue(NumberText(value))
  ELSE StringValue(value)

\* the position of key among the entries of an object, 0 when it has none
ObjIndex(obj, key) ==
  IF \E i \in 1..Len(obj) : obj[i].key = key
  THEN CHOOSE i \in 1..Len(obj) : obj[i].key = key
  ELSE 0

ObjHas(obj, key) == ObjIndex(obj, key) > 0

\* obj[key] of a key the object has
ObjGet(obj, key) == obj[ObjIndex(obj, key)].value

\* obj[key] = value: a key the object has keeps its place
ObjSet(obj, key, value) ==
  IF ObjHas(obj, key)
  THEN [obj EXCEPT ![ObjIndex(obj, key)] = [key |-> key, value |-> value]]
  ELSE Append(obj, [key |-> key, value |-> value])

\* delete obj[key]
ObjDelete(obj, key) ==
  IF ObjHas(obj, key)
  THEN SubSeq(obj, 1, ObjIndex(obj, key) - 1)
         \o SubSeq(obj, ObjIndex(obj, key) + 1, Len(obj))
  ELSE obj

\* the position of the first equals sign of the line, Len + 1 when it has
\* none
EqualPos(trimmed) == RunEndNot(trimmed, 1, {"="})

\* the body of parseToml's loop for one line; st is the object built so
\* far, the current section and whether the assignment of a key raised a
\* TypeError
ParseLine(st, line) ==
  LET trimmed == Trim(line) IN
    IF st.threw THEN st
    ELSE IF Len(trimmed) = 0 \/ StartsWith(trimmed, <<"#">>) THEN st
    ELSE IF StartsWith(trimmed, <<"[">>) /\ EndsWith(trimmed, <<"]">>)
    THEN
      LET name == Inner(trimmed) IN
        [st EXCEPT
           !.currentSection = name,
           !.config = IF ~ObjHas(@, name) \/ IsFalsy(ObjGet(@, name))
                      THEN ObjSet(@, name, SectionValue(<<>>))
                      ELSE @]
    ELSE IF EqualPos(trimmed) > 1 /\ EqualPos(trimmed) <= Len(trimmed)
    THEN
      LET key    == Trim(SubSeq(trimmed, 1, EqualPos(trimmed) - 1))
          value  == Trim(SubSeq(trimmed, EqualPos(trimmed) + 1, Len(trimmed)))
          parsed == ParseValue(value)
      IN IF Len(st.currentSection) > 0
         THEN
           LET target == ObjGet(st.config, st.currentSection) IN
             \* a property set on an array is read by nothing; one set on
             \* a string, a number or a boolean is a TypeError
             IF target.type = "section"
             THEN [st EXCEPT !.config =
                     ObjSet(@, st.currentSection,
                            SectionValue(ObjSet(target.data, key, parsed)))]
             ELSE IF target.type = "array" THEN st
             ELSE [st EXCEPT !.threw = TRUE]
         ELSE [st EXCEPT !.config = ObjSet(@, key, parsed)]
    ELSE st

RECURSIVE ParseLines(_, _)
ParseLines(st, lines) ==
  IF Len(lines) = 0 THEN st
  ELSE ParseLines(ParseLine(st, Head(lines)), Tail(lines))

\* parseToml: the object read from the text, or a fault
parseToml(content) ==
  ParseLines([threw |-> FALSE, config |-> <<>>, currentSection |-> <<>>],
             SplitOn(content, "\n"))

\* a string between double quotes
Quoted(text) == <<"\"">> \o text \o <<"\"">>

\* formatTomlValue of an array, a string, a boolean or a number
formatTomlValue(value) ==
  IF value.type = "array"
  THEN <<"[">>
         \o JoinWith([i \in 1..Len(value.data) |-> Quoted(value.data[i])],
                     <<",", " ">>)
         \o <<"]">>
  ELSE IF value.type = "string" THEN Quoted(value.data[1])
  ELSE IF value.type = "boolean"
  THEN (IF value.data = <<"true">> THEN <<"t", "r", "u", "e">>
        ELSE <<"f", "a", "l", "s", "e">>)
  ELSE value.data[1]

\* the line key = value
KeyValueLine(entry) ==
  entry.key \o <<" ", "=", " ">> \o formatTomlValue(entry.value)

\* the first loop of stringifyToml: the top-level values that are no
\* section
RECURSIVE TopLevelLines(_)
TopLevelLines(config) ==
  IF Len(config) = 0 THEN <<>>
  ELSE (IF Head(config).value.type # "section"
        THEN <<KeyValueLine(Head(config))>> ELSE <<>>)
       \o TopLevelLines(Tail(config))

\* the second loop of stringifyToml: the sections, an empty line before
\* each but the first line of the file
RECURSIVE SectionLines(_, _)
SectionLines(config, lines) ==
  IF Len(config) = 0 THEN lines
  ELSE IF Head(config).value.type = "section"
  THEN SectionLines(
         Tail(config),
         lines \o (IF Len(lines) > 0 THEN << <<>> >> ELSE <<>>)
               \o << <<"[">> \o Head(config).key \o <<"]">> >>
               \o [i \in 1..Len(Head(config).value.data) |->
                     KeyValueLine(Head(config).value.data[i])])
  ELSE SectionLines(Tail(config), lines)

\* stringifyToml
stringifyToml(config) ==
  JoinWith(SectionLines(config, TopLevelLines(config)), <<"\n">>) \o <<"\n">>

\* the key notify
NotifyKey == <<"n", "o", "t", "i", "f", "y">>

\* getPluginCommand()[0]
PluginCommand ==
  <<"c", "o", "d", "e", "x", "-",
     "w", "a", "k", "a", "t", "i", "m", "e">>

\* normalizeNotifyValue(config.notify): the items of an array, a string as
\* one item, nothing for any other value and for no value
normalizeNotifyValue(config) ==
  IF ~ObjHas(config, NotifyKey) THEN <<>>
  ELSE LET value == ObjGet(config, NotifyKey) IN
         IF value.type = "array" THEN value.data
         ELSE IF value.type = "string" THEN <<value.data[1]>>
         ELSE <<>>

hasNotifyEntry(entries, command) ==
  \E i \in 1..Len(entries) : entries[i] = command

removeNotifyEntry(entries, command) ==
  SelectSeq(entries, LAMBDA entry : entry # command)

\* the files of ~/.codex: whether the directory exists, the text of
\* config.toml (Null when there is no file) and whether it can be read
CodexFiles(dir, file, readable) ==
  [dir |-> dir, file |-> file, readable |-> readable]

\* what a hook call did: the files after it, and the text it wrote (Null
\* when it wrote nothing)
HookResult(files, wrote) == [files |-> files, wrote |-> wrote]

\* the config installHook starts from: the parsed file, or an empty object
\* when there is no file or it cannot be read or parsed
ExistingConfig(files) ==
  IF IsNull(files.file) \/ ~files.readable THEN <<>>
  ELSE LET parsed == parseToml(TextOf(files.file)) IN
         IF parsed.threw THEN <<>> ELSE parsed.config

\* installHook that appends without looking for the entry
installHook_NoCheck(files) ==
  LET config     == ExistingConfig(files)
      newContent == stringifyToml(
                      ObjSet(config, NotifyKey,
                             ArrayValue(Append(normalizeNotifyValue(config),
                                               PluginCommand))))
  IN HookResult([files EXCEPT !.dir = TRUE, !.file = Str(newContent)],
                Str(newContent))

\* installHook
installHook(files) ==
  LET withDir        == [files EXCEPT !.dir = TRUE]
      config         == ExistingConfig(files)
      existingNotify == normalizeNotifyValue(config)
  IN IF hasNotifyEntry(existingNotify, PluginCommand)
     THEN HookResult(withDir, Null)
     ELSE
       LET newContent == stringifyToml(
                           ObjSet(config, NotifyKey,
                                  ArrayValue(Append(existingNotify,
                                                    PluginCommand))))
       IN HookResult([withDir EXCEPT !.file = Str(newContent)],
                     Str(newContent))

\* uninstallHook: a file that is missing, cannot be read or cannot be
\* parsed, and a file without the entry, are left as they are
uninstallHook(files) ==
  IF IsNull(files.file) \/ ~files.readable THEN HookResult(files, Null)
  ELSE
    LET parsed == parseToml(TextOf(files.file)) IN
      IF parsed.threw THEN HookResult(files, Null)
      ELSE
        LET config         == parsed.config
            existingNotify == normalizeNotifyValue(config)
            updatedNotify  == removeNotifyEntry(existingNotify, PluginCommand)
        IN IF ~hasNotifyEntry(existingNotify, PluginCommand)
           THEN HookResult(files, Null)
           ELSE
             LET newContent ==
                   stringifyToml(
                     IF Len(updatedNotify) = 0
                     THEN ObjDelete(config, NotifyKey)
                     ELSE ObjSet(config, NotifyKey, ArrayValue(updatedNotify)))
             IN HookResult([files EXCEPT !.file = Str(newContent)],
                           Str(newContent))

\* the command of another hook
HookA == <<"h", "o", "o", "k", "-", "a">>
HookB == <<"h", "o", "o", "k", "-", "b">>

\* the file of the install test: two hooks
CfgHooks ==
  <<"n", "o", "t", "i", "f", "y", " ", "=", " ", "[", "\"", "h", "o",
    "o", "k", "-", "a", "\"", ",", " ", "\"", "h", "o", "o", "k", "-",
    "b", "\"", "]", "\n">>

\* a hook and codex-wakatime
CfgInstalled ==
  <<"n", "o", "t", "i", "f", "y", " ", "=", " ", "[", "\"", "h", "o",
    "o", "k", "-", "a", "\"", ",", " ", "\"", "c", "o", "d", "e", "x",
    "-", "w", "a", "k", "a", "t", "i", "m", "e", "\"", "]", "\n">>

\* codex-wakatime alone
CfgOnly ==
  <<"n", "o", "t", "i", "f", "y", " ", "=", " ", "[", "\"", "c", "o",
    "d", "e", "x", "-", "w", "a", "k", "a", "t", "i", "m", "e", "\"",
    "]", "\n">>

\* notify as one string
CfgString ==
  <<"n", "o", "t", "i", "f", "y", " ", "=", " ", "\"", "h", "o", "o",
    "k", "-", "a", "\"", "\n">>

\* no notify key: another key and a section
CfgOther ==
  <<"m", "o", "d", "e", "l", " ", "=", " ", "\"", "o", "3", "\"", "\n",
    "\n", "[", "t", "u", "i", "]", "\n", "n", "o", "t", "i", "f", "i",
    "c", "a", "t", "i", "o", "n", "s", " ", "=", " ", "t", "r", "u",
    "e", "\n">>

\* a hook, and a comment after the array
CfgComment ==
  <<"n", "o", "t", "i", "f", "y", " ", "=", " ", "[", "\"", "h", "o",
    "o", "k", "-", "a", "\"", "]", " ", "#", " ", "m", "i", "n", "e",
    "\n">>

\* codex-wakatime in an array written over several lines
CfgInstalledMultiLine ==
  <<"n", "o", "t", "i", "f", "y", " ", "=", " ", "[", "\n", " ", " ",
    "\"", "c", "o", "d", "e", "x", "-", "w", "a", "k", "a", "t", "i",
    "m", "e", "\"", ",", "\n", "]", "\n">>

\* a hook in an array written over several lines
CfgMultiLine ==
  <<"n", "o", "t", "i", "f", "y", " ", "=", " ", "[", "\n", " ", " ",
    "\"", "h", "o", "o", "k", "-", "a", "\"", ",", "\n", "]", "\n">>

\* no notify key: another key, and a comment after its value
CfgKeyComment ==
  <<"m", "o", "d", "e", "l", " ", "=", " ", "\"", "o", "3", "\"", " ",
    "#", " ", "f", "a", "s", "t", "\n">>

\* the texts of config.toml that the hook calls start from
ConfigTexts ==
  { CfgHooks, CfgInstalled, CfgOnly, CfgString, CfgOther, CfgComment,
    CfgInstalledMultiLine, CfgMultiLine, CfgKeyComment }

\* the states of ~/.codex that the hook calls start from: no directory, no
\* file, a file that cannot be read, a file that can
InitialCodexFiles ==
  { CodexFiles(FALSE, Null, TRUE), CodexFiles(TRUE, Null, TRUE) }
    \cup { CodexFiles(TRUE, Str(t), r) : t \in ConfigTexts, r \in BOOLEAN }

\* the hook calls of one run of the harness
MaxHookCalls == 3

\* the harness of the hook calls before any call
NewCodex(files) ==
  [files  |-> files,
   \* the number of calls, the last call, the files before it and the text
   \* it wrote (Null when it wrote nothing)
   calls  |-> 0,
   op     |-> "none",
   before |-> files,
   wrote  |-> Null]

(***************************************************************************)
(* dependencies.ts: the resolver of the wakatime-cli executable.  A path   *)
(* is a sequence of segments; a file name is built from its parts.          *)
(***************************************************************************)
\* the pairs of os.platform() and os.arch() with a released binary
SupportedPairs ==
  { <<"darwin", "x64">>, <<"darwin", "arm64">>,
    <<"linux", "x64">>, <<"linux", "arm64">>, <<"linux", "arm">>,
    <<"win32", "x64">>, <<"win32", "ia32">> }

\* a pair without a released binary
UnsupportedPair == <<"sunos", "x64">>

\* os.homedir()
HomeDir == "/home/user"

\* a directory of the search path
SearchPathDir == "/usr/local/bin"

\* an environment of the resolver: the platform, what which.sync does
\* ("hit", "none", "throws") and whether the cached binary is on disk
Environments ==
  [pair   : SupportedPairs \cup {UnsupportedPair},
   which  : {"hit", "none", "throws"},
   onDisk : BOOLEAN]

DefaultEnv == [pair |-> <<"darwin", "x64">>, which |-> "none", onDisk |-> FALSE]

\* the outcome of a call: a value returned, or a fault raised
Returned(v) == [threw |-> FALSE, value |-> v]
Threw == [threw |-> TRUE, value |-> Null]

isWindows(env) == env.pair[1] = "win32"

\* osName
osName(env) == IF isWindows(env) THEN "windows" ELSE env.pair[1]

\* architecture with no mapping: the value of os.arch()
architecture_Raw(env) == env.pair[2]

\* architecture: x64 is amd64, ia32 is 386, the others keep their name
architecture(env) ==
  IF env.pair[2] = "x64" THEN "amd64"
  ELSE IF env.pair[2] = "ia32" THEN "386"
  ELSE env.pair[2]

\* the name looked up in the search path
GlobalBinaryName(env) ==
  <<"wakatime-cli">> \o (IF isWindows(env) THEN <<".exe">> ELSE <<>>)

\* the name of the cached binary: wakatime-cli-{os}-{arch}{ext}
LocalBinaryName(env) ==
  <<"wakatime-cli", "-", osName(env), "-", architecture(env)>>
    \o (IF isWindows(env) THEN <<".exe">> ELSE <<>>)

\* which.sync(name, {nothrow: true})
whichSync(name, env) ==
  CASE env.which = "hit"    -> Returned(Str(<<SearchPathDir, name>>))
    [] env.which = "none"   -> Returned(Null)
    [] env.which = "throws" -> Threw

\* getCliLocationGlobal without its try/catch
getCliLocationGlobal_NoCatch(env) == whichSync(GlobalBinaryName(env), env)

\* getCliLocationGlobal: the search-path hit, undefined when there is none
\* or when the probe fails
getCliLocationGlobal(env) ==
  LET r == whichSync(GlobalBinaryName(env), env) IN
    IF r.threw THEN Returned(Null) ELSE r

\* a new Dependencies(): nothing located, nothing probed
NewDependencies(env) ==
  [env         |-> env,
   \* the location kept in memory
   cliLocation |-> Null,
   \* the number of search-path probes of this instance, and how many of
   \* them getCliLocation made
   probes      |-> 0,
   locateProbes |-> 0,
   \* the results of getCliLocation of this instance, in order
   locates     |-> <<>>,
   \* the last call and its outcome
   op          |-> "new",
   outcome     |-> Returned(Null),
   \* how the download of the last ensureCliInstalled ended, had it been made
   acquired    |-> "ok",
   \* the number of calls and of instances of the run
   calls       |-> 0,
   instances   |-> 1]

\* getCliLocation that does not keep the location in memory
Locating_NoCache(d) ==
  LET g   == getCliLocationGlobal(d.env)
      p   == [d EXCEPT !.probes = @ + 1, !.locateProbes = @ + 1]
      loc == IF ~IsNull(g.value) THEN g.value
             ELSE Str(<<HomeDir, ".wakatime", LocalBinaryName(d.env)>>)
  IN IF g.threw THEN [p EXCEPT !.outcome = Threw]
     ELSE [p EXCEPT !.outcome = Returned(loc)]

\* getCliLocation, as a step of the instance d: the location in memory, or
\* else the search-path hit, or else the cached binary under ~/.wakatime
Locating(d) ==
  IF ~IsNull(d.cliLocation) THEN [d EXCEPT !.outcome = Returned(d.cliLocation)]
  ELSE
    LET g == getCliLocationGlobal(d.env)
        p == [d EXCEPT !.probes = @ + 1, !.locateProbes = @ + 1]
    IN IF g.threw THEN [p EXCEPT !.outcome = Threw]
       ELSE
         LET loc == IF ~IsNull(g.value) THEN g.value
                    ELSE Str(<<HomeDir, ".wakatime", LocalBinaryName(d.env)>>)
         IN [p EXCEPT !.cliLocation = loc, !.outcome = Returned(loc)]

\* fs.existsSync of a location: a search-path hit exists, the cached binary
\* exists when it was downloaded
existsSync(loc, env) ==
  IF TextOf(loc)[1] = SearchPathDir THEN TRUE ELSE env.onDisk

\* isCliInstalled: existsSync(getCliLocation())
CheckingInstalled(d) ==
  LET l == Locating(d) IN
    IF l.outcome.threw THEN l
    ELSE [l EXCEPT !.outcome = Returned(existsSync(l.outcome.value, d.env))]

\* the outcomes of the download of the binary
AcquireOutcomes == {"ok", "network error", "unsupported platform", "write failure"}

\* ensureCliInstalled: available when the binary is installed or can be
\* acquired, unavailable otherwise, a fault included
Ensuring(d, acquired) ==
  LET c == CheckingInstalled(d) IN
    IF c.outcome.threw THEN [c EXCEPT !.outcome = Returned(FALSE)]
    ELSE IF c.outcome.value THEN c
    ELSE IF acquired = "ok" /\ d.env.pair \in SupportedPairs
    THEN [c EXCEPT !.env.onDisk = TRUE, !.outcome = Returned(TRUE)]
    ELSE [c EXCEPT !.outcome = Returned(FALSE)]

\* the calls made on one run of the harness
MaxCalls == 3

VARIABLES
  \* the clock, in seconds, and the number of times it advanced
  now, ticks,
  \* the content of ~/.wakatime/codex.json
  stateFile,
  \* the invocations: turn[p] is the process of the p-th invocation
  turn,
  \* the extractor called as a function: its arguments
  exMessage, exCwd,
  \* Null before the call, Str(result) after it
  exFiles, exPaths,
  \* the resolver: its environment, the Dependencies instance, its calls
  deps,
  \* ~/.codex and the hook calls made on it
  codex

exVars == <<exMessage, exCwd, exFiles, exPaths>>

runVars == <<now, ticks, stateFile, turn>>

toolVars == <<deps, codex>>

vars ==
  <<now, ticks, stateFile, turn, exMessage, exCwd, exFiles, exPaths, deps,
    codex>>

\* a process that has not been started
IdleTurn ==
  [pc        |-> "idle",
   arg       |-> ArgMissing,
   \* what the rate check read, and when
   seen      |-> FileMissing,
   checkedAt |-> 0,
   due       |-> FALSE,
   \* the result of ensureCliInstalled
   cli       |-> "unknown",
   \* the result of extractFiles and the position of the for loop
   files     |-> <<>>,
   next      |-> 1,
   \* the heartbeats dispatched, each with the exit status its subprocess
   \* ends with
   sent      |-> <<>>,
   \* the times at which the subprocesses were started, and the indexes in
   \* sent of those that have not exited
   sentAt    |-> <<>>,
   running   |-> {},
   \* another invocation ran while this one did
   overlapped |-> FALSE,
   \* the stages run, in order
   log       |-> <<>>,
   \* the times at which the rate-limit file was written
   wrote     |-> <<>>,
   exit      |-> "none"]

\* the extractor's harness at rest
ExIdle ==
  /\ exMessage = Null
  /\ exCwd = CwdP
  /\ exFiles = Null
  /\ exPaths = Null

\* the resolver's harness at rest
ToolIdle ==
  /\ deps = NewDependencies(DefaultEnv)
  /\ codex = NewCodex(CodexFiles(FALSE, Null, TRUE))

\* the orchestrator at rest
RunIdle ==
  /\ now = 0
  /\ ticks = 0
  /\ stateFile = FileMissing
  /\ turn = [p \in Turns |-> IdleTurn]

Init ==
  /\ now = 0
  /\ ticks = 0
  /\ stateFile \in {FileMissing, FileMalformed, FileEmptyJson, FileWith(0)}
  /\ turn = [p \in Turns |-> IdleTurn]
  /\ ExIdle
  /\ ToolIdle

(***************************************************************************)
(* index.ts: main, one action per stage.                                   *)
(***************************************************************************)
\* the process ends: main returns
Ended(t) == [t EXCEPT !.pc = "done", !.exit = "clean"]

\* what is left of a process that has ended once the host moves on: the
\* stages it ran and the times at which it wrote the rate-limit file
Exited(t) ==
  IF t.pc = "done"
  THEN [IdleTurn EXCEPT !.pc = "exited", !.exit = t.exit,
                        !.checkedAt = t.checkedAt,
                        !.log = t.log, !.wrote = t.wrote,
                        !.sentAt = t.sentAt,
                        !.overlapped = t.overlapped]
  ELSE t

\* the process of t is over: main has returned and no subprocess of it is
\* left, or it was never started
Finished(t) == t.pc \in {"idle", "done", "exited"} /\ t.running = {}

\* the host starts the p-th invocation with argument a: no other invocation
\* is running
Spawn(p, a) ==
  /\ turn[p].pc = "idle"
  /\ \A q \in Turns : q < p => turn[q].pc \in {"done", "exited"}
  /\ \A q \in Turns : Finished(turn[q])
  /\ turn' = [q \in Turns |->
                IF q = p THEN [IdleTurn EXCEPT !.pc = "main", !.arg = a]
                ELSE Exited(turn[q])]
  /\ UNCHANGED <<now, ticks, stateFile, exVars, toolVars>>

\* NotificationGate without the test of notification.type
NotificationGate_NoTypeCheck(t) ==
  LET n == parseNotification(t.arg) IN
    IF ~n.found THEN Ended(t) ELSE [t EXCEPT !.pc = "rate"]

\* main up to the notification gate: an absent notification and a
\* notification of another type end the process
NotificationGate(t) ==
  LET n == parseNotification(t.arg) IN
    IF ~n.found THEN Ended(t)
    ELSE IF n.value.type # AGENT_TURN_COMPLETE THEN Ended(t)
    ELSE [t EXCEPT !.pc = "rate"]

ParseStep(p) ==
  /\ turn[p].pc = "main"
  /\ turn' = [turn EXCEPT ![p] = NotificationGate(turn[p])]
  /\ UNCHANGED <<now, ticks, stateFile, exVars, toolVars>>

\* RateGate without its return: the check is made and logged, main goes on
RateGate_NoReturn(t, file, time) ==
  [t EXCEPT !.seen = file, !.checkedAt = time,
            !.due = shouldSendHeartbeat(file, time),
            !.log = Append(@, "rate"), !.pc = "ensure"]

\* RateGate with the test inverted: main returns when the report is due
RateGate_Inverted(t, file, time) ==
  LET d == shouldSendHeartbeat(file, time)
      u == [t EXCEPT !.seen = file, !.checkedAt = time, !.due = d,
                     !.log = Append(@, "rate")]
  IN IF d THEN Ended(u) ELSE [u EXCEPT !.pc = "ensure"]

\* main's rate check: not due ends the process
RateGate(t, file, time) ==
  LET d == shouldSendHeartbeat(file, time)
      u == [t EXCEPT !.seen = file, !.checkedAt = time, !.due = d,
                     !.log = Append(@, "rate")]
  IN IF ~d THEN Ended(u) ELSE [u EXCEPT !.pc = "ensure"]

RateCheck(p) ==
  /\ turn[p].pc = "rate"
  /\ turn' = [turn EXCEPT ![p] = RateGate(turn[p], stateFile, now)]
  /\ UNCHANGED <<now, ticks, stateFile, exVars, toolVars>>

\* CliGate without its return: main goes on without the executable
CliGate_NoReturn(t, cliAvailable) ==
  [t EXCEPT !.cli = IF cliAvailable THEN "available" ELSE "unavailable",
            !.log = Append(@, "ensure"), !.pc = "extract"]

\* main's dependency gate: an unavailable executable ends the process
CliGate(t, cliAvailable) ==
  LET u == [t EXCEPT !.cli = IF cliAvailable THEN "available" ELSE "unavailable",
                     !.log = Append(@, "ensure")]
  IN IF ~cliAvailable THEN Ended(u) ELSE [u EXCEPT !.pc = "extract"]

\* await ensureCliInstalled(): the executable is found, cached or fetched
\* (available), or none of these (unavailable)
EnsureCli(p) ==
  /\ turn[p].pc = "ensure"
  /\ \E cliAvailable \in BOOLEAN :
       turn' = [turn EXCEPT ![p] = CliGate(turn[p], cliAvailable)]
  /\ UNCHANGED <<now, ticks, stateFile, exVars, toolVars>>

\* main's extraction: notification["last-assistant-message"] ?? ""
Extraction(t) ==
  LET n == t.arg.value
      assistantMessage == IF IsNull(n.message) THEN Str(<<>>) ELSE n.message
  IN [t EXCEPT !.files = extractFiles(assistantMessage, n.cwd),
               !.next = 1,
               !.log = Append(@, "extract"),
               !.pc = "dispatch"]

Extract(p) ==
  /\ turn[p].pc = "extract"
  /\ turn' = [turn EXCEPT ![p] = Extraction(turn[p])]
  /\ UNCHANGED <<now, ticks, stateFile, exVars, toolVars>>

\* Dispatching that ends the turn at the first heartbeat that fails
Dispatching_AbortOnFailure(t, ok) ==
  LET cwd == t.arg.value.cwd
      hb  == IF Len(t.files) > 0 THEN FileHeartbeat(t.files[t.next], cwd)
             ELSE ProjectHeartbeat(cwd)
      u   == [t EXCEPT !.sent = Append(@, [params |-> hb, ok |-> ok]),
                       !.next = @ + 1,
                       !.log = Append(@, "dispatch")]
  IN IF ~ok THEN Ended(u)
     ELSE [u EXCEPT !.pc = IF t.next + 1 > Len(t.files) THEN "update"
                           ELSE "dispatch"]

\* Dispatching without the else branch: nothing is sent when no file was
\* extracted
Dispatching_NoFallback(t, ok) ==
  LET cwd == t.arg.value.cwd IN
    IF Len(t.files) > 0
    THEN [t EXCEPT
            !.sent = Append(@, [params |-> FileHeartbeat(t.files[t.next], cwd),
                                ok |-> ok]),
            !.next = @ + 1,
            !.log = Append(@, "dispatch"),
            !.pc = IF t.next + 1 > Len(t.files) THEN "update" ELSE "dispatch"]
    ELSE [t EXCEPT !.pc = "update"]

\* Dispatching that leaves the for loop after its first heartbeat
Dispatching_LeaveAfterFirst(t, ok) ==
  LET cwd == t.arg.value.cwd
      hb  == IF Len(t.files) > 0 THEN FileHeartbeat(t.files[t.next], cwd)
             ELSE ProjectHeartbeat(cwd)
  IN [t EXCEPT !.sent = Append(@, [params |-> hb, ok |-> ok]),
               !.next = @ + 1,
               !.log = Append(@, "dispatch"),
               !.pc = "update"]

\* one sendHeartbeat call of main: the next file of the for loop, or the
\* project-level fallback when no file was extracted; ok is the exit status
\* of the subprocess, which main does not read
Dispatching(t, ok) ==
  LET cwd == t.arg.value.cwd IN
    IF Len(t.files) > 0
    THEN [t EXCEPT
            !.sent = Append(@, [params |-> FileHeartbeat(t.files[t.next], cwd),
                                ok |-> ok]),
            !.next = @ + 1,
            !.log = Append(@, "dispatch"),
            !.pc = IF t.next + 1 > Len(t.files) THEN "update" ELSE "dispatch"]
    ELSE [t EXCEPT
            !.sent = Append(@, [params |-> ProjectHeartbeat(cwd), ok |-> ok]),
            !.log = Append(@, "dispatch"),
            !.pc = "update"]

\* sendHeartbeat starts the subprocess and returns: main does not wait for
\* it.  u is t after the call, made at time
Started(t, u, time) ==
  IF Len(u.sent) > Len(t.sent)
  THEN [u EXCEPT !.sentAt = Append(@, time),
                 !.running = @ \cup {Len(u.sent)}]
  ELSE u

Dispatch(p) ==
  /\ turn[p].pc = "dispatch"
  /\ \E ok \in BOOLEAN :
       turn' = [turn EXCEPT ![p] =
                  Started(turn[p], Dispatching(turn[p], ok), now)]
  /\ UNCHANGED <<now, ticks, stateFile, exVars, toolVars>>

\* a subprocess of the p-th invocation exits
SubprocessExit(p) ==
  /\ \E i \in turn[p].running :
       turn' = [turn EXCEPT ![p].running = @ \ {i}]
  /\ UNCHANGED <<now, ticks, stateFile, exVars, toolVars>>

\* Updating that is skipped when every heartbeat of the turn failed
Updating_OnlyOnSuccess(t, time, written) ==
  IF \A i \in 1..Len(t.sent) : ~t.sent[i].ok
  THEN Ended(t)
  ELSE Ended([t EXCEPT !.wrote = IF written THEN Append(@, time) ELSE @,
                       !.log = Append(@, "update")])

\* main's last stage: updateLastHeartbeat(), then the process ends; a write
\* that fails is logged and leaves the file as it was
Updating(t, time, written) ==
  Ended([t EXCEPT !.wrote = IF written THEN Append(@, time) ELSE @,
                  !.log = Append(@, "update")])

UpdateState(p) ==
  /\ turn[p].pc = "update"
  /\ \E written \in BOOLEAN :
       /\ stateFile' = IF written THEN updateLastHeartbeat(now) ELSE stateFile
       /\ turn' = [turn EXCEPT ![p] = Updating(turn[p], now, written)]
  /\ UNCHANGED <<now, ticks, exVars, toolVars>>

\* time passes
Tick(d) ==
  /\ ticks < MaxTicks
  /\ now' = now + d
  /\ ticks' = ticks + 1
  /\ UNCHANGED <<stateFile, turn, exVars, toolVars>>

Next ==
  \/ \E p \in Turns, a \in Args : Spawn(p, a)
  \/ \E p \in Turns : ParseStep(p)
  \/ \E p \in Turns : RateCheck(p)
  \/ \E p \in Turns : EnsureCli(p)
  \/ \E p \in Turns : Extract(p)
  \/ \E p \in Turns : Dispatch(p)
  \/ \E p \in Turns : SubprocessExit(p)
  \/ \E p \in Turns : UpdateState(p)
  \/ \E d \in TickSteps : Tick(d)

Spec == Init /\ [][Next]_vars

(***************************************************************************)
(* The orchestrator when the host does not wait for an invocation to end   *)
(* before it starts the next.                                              *)
(***************************************************************************)
\* the host starts the p-th invocation with argument a while another one
\* is running
SpawnOverlapping(p, a) ==
  /\ turn[p].pc = "idle"
  /\ \A q \in Turns : q < p => turn[q].pc # "idle"
  /\ \E q \in Turns : ~Finished(turn[q])
  /\ turn' = [q \in Turns |->
                IF q = p
                THEN [IdleTurn EXCEPT !.pc = "main", !.arg = a,
                                      !.overlapped = TRUE]
                ELSE IF ~Finished(turn[q])
                THEN [turn[q] EXCEPT !.overlapped = TRUE]
                ELSE turn[q]]
  /\ UNCHANGED <<now, ticks, stateFile, exVars, toolVars>>

\* the arguments of the overlapping invocations: turns that pass the
\* notification gate, without a file and with one
OverlapArgs ==
  { ArgJson(AGENT_TURN_COMPLETE, Str(FragProse), CwdPQ),
    ArgJson(AGENT_TURN_COMPLETE, Str(FragCreated), CwdPQ) }

NextOverlap ==
  \/ \E p \in Turns, a \in OverlapArgs : Spawn(p, a)
  \/ \E p \in Turns, a \in OverlapArgs : SpawnOverlapping(p, a)
  \/ \E p \in Turns : ParseStep(p)
  \/ \E p \in Turns : RateCheck(p)
  \/ \E p \in Turns : EnsureCli(p)
  \/ \E p \in Turns : Extract(p)
  \/ \E p \in Turns : Dispatch(p)
  \/ \E p \in Turns : SubprocessExit(p)
  \/ \E p \in Turns : UpdateState(p)
  \/ \E d \in TickSteps : Tick(d)

SpecOverlap == Init /\ [][NextOverlap]_vars

(***************************************************************************)
(* The extractor called as a function, on every message of the model.      *)
(***************************************************************************)
InitExtract ==
  /\ RunIdle
  /\ exMessage \in MessageInputs
  /\ exCwd \in Cwds
  /\ exFiles = Null
  /\ exPaths = Null
  /\ ToolIdle

\* a caller calls extractFiles(message, cwd)
CallExtractFiles ==
  /\ IsNull(exFiles)
  /\ exFiles' = Str(extractFiles(exMessage, exCwd))
  /\ UNCHANGED <<exMessage, exCwd, exPaths, runVars, toolVars>>

\* a caller calls extractFilePaths(message, cwd)
CallExtractFilePaths ==
  /\ IsNull(exPaths)
  /\ exPaths' = Str(extractFilePaths(exMessage, exCwd))
  /\ UNCHANGED <<exMessage, exCwd, exFiles, runVars, toolVars>>

NextExtract == CallExtractFiles \/ CallExtractFilePaths

SpecExtract == InitExtract /\ [][NextExtract]_vars

(***************************************************************************)
(* The resolver called by a harness: at most MaxCalls calls, in every       *)
(* environment.                                                            *)
(***************************************************************************)
InitResolver ==
  /\ RunIdle
  /\ ExIdle
  /\ deps \in { NewDependencies(env) : env \in Environments }
  /\ codex = NewCodex(CodexFiles(FALSE, Null, TRUE))

\* the call op is made on the instance
Called(d, op) == [d EXCEPT !.op = op, !.calls = @ + 1]

\* a caller calls deps.getCliLocationGlobal()
CallGetCliLocationGlobal ==
  /\ deps.calls < MaxCalls
  /\ deps' = [Called(deps, "getCliLocationGlobal") EXCEPT
                !.probes = @ + 1,
                !.outcome = getCliLocationGlobal(deps.env)]
  /\ UNCHANGED <<runVars, exVars, codex>>

\* a caller calls deps.getCliLocation()
CallGetCliLocation ==
  /\ deps.calls < MaxCalls
  /\ LET l == Locating(Called(deps, "getCliLocation")) IN
       deps' = [l EXCEPT !.locates = Append(@, l.outcome)]
  /\ UNCHANGED <<runVars, exVars, codex>>

\* a caller calls deps.isCliInstalled()
CallIsCliInstalled ==
  /\ deps.calls < MaxCalls
  /\ deps' = CheckingInstalled(Called(deps, "isCliInstalled"))
  /\ UNCHANGED <<runVars, exVars, codex>>

\* a caller calls ensureCliInstalled(); the download, when one is made,
\* ends in one of AcquireOutcomes
CallEnsureCliInstalled ==
  /\ deps.calls < MaxCalls
  /\ \E acquired \in AcquireOutcomes :
       deps' = [Ensuring(Called(deps, "ensureCliInstalled"), acquired)
                  EXCEPT !.acquired = acquired]
  /\ UNCHANGED <<runVars, exVars, codex>>

\* the next invocation: a new process and a new Dependencies()
NewInstance ==
  /\ deps.calls < MaxCalls
  /\ deps' = [NewDependencies(deps.env) EXCEPT
                !.calls = deps.calls + 1,
                !.instances = deps.instances + 1]
  /\ UNCHANGED <<runVars, exVars, codex>>

NextResolver ==
  \/ CallGetCliLocationGlobal
  \/ CallGetCliLocation
  \/ CallIsCliInstalled
  \/ CallEnsureCliInstalled
  \/ NewInstance

SpecResolver == InitResolver /\ [][NextResolver]_vars

(***************************************************************************)
(* index.ts: main with the flag --install or --uninstall, at most          *)
(* MaxHookCalls times, on every initial state of ~/.codex.                 *)
(***************************************************************************)
InitInstall ==
  /\ RunIdle
  /\ ExIdle
  /\ deps = NewDependencies(DefaultEnv)
  /\ codex \in { NewCodex(files) : files \in InitialCodexFiles }

\* the call op was made and gave result
HookCalled(c, op, result) ==
  [files  |-> result.files,
   calls  |-> c.calls + 1,
   op     |-> op,
   before |-> c.files,
   wrote  |-> result.wrote]

\* codex-wakatime --install
Install ==
  /\ codex.calls < MaxHookCalls
  /\ codex' = HookCalled(codex, "install", installHook(codex.files))
  /\ UNCHANGED <<runVars, exVars, deps>>

\* codex-wakatime --uninstall
Uninstall ==
  /\ codex.calls < MaxHookCalls
  /\ codex' = HookCalled(codex, "uninstall", uninstallHook(codex.files))
  /\ UNCHANGED <<runVars, exVars, deps>>

NextInstall == Install \/ Uninstall

SpecInstall == InitInstall /\ [][NextInstall]_vars

(***************************************************************************)
(* Properties of the extractor.                                            *)
(***************************************************************************)
\* the normalized paths of the valid captures of one expression
HitsOf(kind, text, cwd) ==
  LET caps == MatchAll(kind, text) IN
    { normalizePath(caps[i], cwd) :
        i \in { j \in 1..Len(caps) : Len(caps[j]) > 0 /\ isValidFilePath(caps[j]) } }

\* the paths that a write-verb phrase yields
WriteHits(text, cwd) == HitsOf(WRITE_PATTERN, text, cwd)

\* the paths that a read signal yields: a code-block header, backticks,
\* quotes, or a read-verb phrase
ReadHits(text, cwd) ==
  UNION { HitsOf(READ_PATTERNS[k], text, cwd) : k \in 1..Len(READ_PATTERNS) }

\* the positions of path in a result of extractFiles
RecordsOf(files, path) == { i \in 1..Len(files) : files[i].path = path }

\* extractFiles has been called on a message that is a non-empty string
FilesCalled ==
  ~IsNull(exFiles) /\ ~IsNull(exMessage) /\ Len(TextOf(exMessage)) > 0

PathA == <<"/", "p", "/", "a", ".", "t", "s">>

\* C1: a path that a write-verb phrase yields has exactly one record in the
\* result of extractFiles, and that record has isWrite = TRUE, whether or
\* not a read signal yields the same path and wherever in the text it does:
\* write is never downgraded to read
C1_WriteWins ==
  FilesCalled =>
    LET text  == TextOf(exMessage)
        files == TextOf(exFiles)
    IN \A path \in WriteHits(text, exCwd) :
         /\ Cardinality(RecordsOf(files, path)) = 1
         /\ \A i \in RecordsOf(files, path) : files[i].isWrite = TRUE

\* C1, witness: the read phrase comes first and spells the path otherwise;
\* the one record of /p/a.ts is a write
C1_Witness ==
  /\ FilesCalled
  /\ exMessage = Str(FragReadDot \o FragEdit)
  /\ exCwd = CwdP
  /\ PathA \in WriteHits(TextOf(exMessage), exCwd) \cap ReadHits(TextOf(exMessage), exCwd)
  /\ TextOf(exFiles) = <<[path |-> PathA, isWrite |-> TRUE]>>

(***************************************************************************)
(* Properties of the orchestrator.                                         *)
(***************************************************************************)
\* the process of an invocation that is running, or has ended and is the
\* last one started
Live(t) == t.pc \notin {"idle", "exited"}

\* the stage st was run
HasStage(log, st) == \E i \in 1..Len(log) : log[i] = st

\* the number of times the stage st was run
CountStage(log, st) == Cardinality({ i \in 1..Len(log) : log[i] = st })

\* the time of the last successful write of the rate-limit file
LastWrote(t) == t.wrote[Len(t.wrote)]

\* C2: once a turn has dispatched and recorded lastHeartbeatAt = T, every
\* later turn whose rate check runs before T + 60 s dispatches no heartbeat
C2_RateLimited ==
  \A q \in Turns, p \in Turns :
    ( /\ q < p
      /\ Len(turn[q].wrote) > 0
      /\ HasStage(turn[q].log, "dispatch")
      /\ HasStage(turn[p].log, "rate")
      /\ turn[p].checkedAt < LastWrote(turn[q]) + 60 )
    => /\ ~HasStage(turn[p].log, "dispatch")
       /\ turn[p].sent = <<>>

\* C2, witness: the second turn checks 59 s after the first recorded its
\* heartbeat, and ends without a dispatch
C2_Witness ==
  /\ Len(turn[1].wrote) > 0
  /\ HasStage(turn[1].log, "dispatch")
  /\ turn[2].pc = "done"
  /\ turn[2].arg \in { ArgJson(AGENT_TURN_COMPLETE, m, CwdPQ) : m \in TurnMessages }
  /\ turn[2].checkedAt = LastWrote(turn[1]) + 59
  /\ turn[2].sent = <<>>

\* the rate check of t read a timestamp
SawTimestamp(t) == t.seen.kind = "json" /\ t.seen.has

\* C3: the rate check finds the report due when the state read holds no
\* timestamp, and otherwise exactly when 60 s or more have passed since the
\* timestamp: not due at T + 59, due at T + 60
C3_IsDue ==
  \A p \in Turns :
    LET t == turn[p] IN
      (Live(t) /\ HasStage(t.log, "rate")) =>
        /\ t.due <=> ( \/ ~SawTimestamp(t)
                       \/ t.checkedAt - t.seen.lastHeartbeatAt >= 60 )
        /\ (SawTimestamp(t) /\ t.checkedAt = t.seen.lastHeartbeatAt + 59)
             => ~t.due
        /\ (SawTimestamp(t) /\ t.checkedAt = t.seen.lastHeartbeatAt + 60)
             => t.due

\* C3, witness: a rate check 59 s after the timestamp, not due
C3_Witness ==
  \E p \in Turns :
    /\ Live(turn[p])
    /\ HasStage(turn[p].log, "rate")
    /\ SawTimestamp(turn[p])
    /\ turn[p].checkedAt = turn[p].seen.lastHeartbeatAt + 59
    /\ ~turn[p].due

\* C4: a rate check that finds the file missing or malformed reports due,
\* as with no timestamp, and main goes on to the dependency gate
C4_UnreadableIsDue ==
  \A p \in Turns :
    LET t == turn[p] IN
      ( /\ Live(t)
        /\ HasStage(t.log, "rate")
        /\ t.seen.kind \in {"missing", "malformed"} )
      => /\ t.due
         /\ t.pc = "ensure" \/ HasStage(t.log, "ensure")

\* C4, witness: the file was malformed and the turn went on to the end
C4_Witness ==
  \E p \in Turns :
    /\ turn[p].pc = "done"
    /\ turn[p].seen.kind = "malformed"
    /\ HasStage(turn[p].log, "update")
    /\ Len(turn[p].sent) > 0

\* the argument is ignored: it is missing, is a flag, is no JSON, is JSON of
\* a falsy value, or is a notification of another type
Ignored(arg) ==
  \/ arg.kind \in {"missing", "flag", "malformed", "null"}
  \/ arg.kind = "json" /\ arg.value.type # AGENT_TURN_COMPLETE

\* C5: an invocation whose argument is missing, is no JSON or is a
\* notification of another type runs no stage: no rate check, no dependency
\* resolution, no dispatch, no write of the rate-limit file; and it ends
\* cleanly
C5_IgnoredArgument ==
  \A p \in Turns :
    LET t == turn[p] IN
      (Live(t) /\ Ignored(t.arg)) =>
        /\ t.pc \in {"main", "done"}
        /\ t.log = <<>>
        /\ t.cli = "unknown"
        /\ t.sent = <<>>
        /\ t.wrote = <<>>
        /\ t.pc = "done" => t.exit = "clean"

\* C5, witness: a notification of another type, ended
C5_Witness ==
  \E p \in Turns :
    /\ turn[p].pc = "done"
    /\ turn[p].arg.kind = "json"
    /\ turn[p].arg.value.type = "session-start"
    /\ turn[p].exit = "clean"

C7_UnavailableEnds ==
  \A p \in Turns :
    LET t == turn[p] IN
      (Live(t) /\ t.cli = "unavailable") =>
        /\ t.pc = "done"
        /\ t.log = <<"rate", "ensure">>
        /\ t.sent = <<>>
        /\ t.wrote = <<>>
        /\ stateFile = t.seen
        /\ \/ ~(stateFile.kind = "json" /\ stateFile.has)
           \/ now - stateFile.lastHeartbeatAt >= 60

\* C7, witness: the executable is unavailable in a turn whose rate check
\* read a timestamp
C7_Witness ==
  \E p \in Turns :
    /\ turn[p].pc = "done"
    /\ turn[p].cli = "unavailable"
    /\ SawTimestamp(turn[p])

\* the place of a stage in the order of main
StageRank(st) ==
  CASE st = "rate"     -> 1
    [] st = "ensure"   -> 2
    [] st = "extract"  -> 3
    [] st = "dispatch" -> 4
    [] st = "update"   -> 5

\* the stages of log are in the order of main, none skipped and none run
\* again, but for the dispatch stage that sends one heartbeat after another
StagesInOrder(log) ==
  \A i \in 1..Len(log) :
    IF i = 1 THEN log[i] = "rate"
    ELSE \/ StageRank(log[i]) = StageRank(log[i - 1]) + 1
         \/ log[i] = "dispatch" /\ log[i - 1] = "dispatch"

Dispatched(t) == Live(t) /\ HasStage(t.log, "extract") /\ t.pc \in {"update", "done"}

\* C9: a turn that passes the gates and extracts nothing sends exactly one
\* heartbeat, of entity type app, with entity cwd and project the base name
\* of cwd; a turn that extracts a file sends no heartbeat of type app
C9_ProjectFallback ==
  \A p \in Turns :
    LET t   == turn[p]
        cwd == t.arg.value.cwd
    IN /\ (Dispatched(t) /\ t.files = <<>>) =>
            /\ Len(t.sent) = 1
            /\ t.sent[1].params.entityType = "app"
            /\ t.sent[1].params.entity = cwd
            /\ t.sent[1].params.project = Str(Basename(cwd))
            /\ cwd = CwdPQ => t.sent[1].params.project = Str(<<"q">>)
       /\ (Live(t) /\ t.files # <<>>) =>
            \A i \in 1..Len(t.sent) : t.sent[i].params.entityType # "app"

\* C9, witness: the message is prose, one heartbeat for the project q
C9_Witness ==
  \E p \in Turns :
    /\ turn[p].pc = "done"
    /\ turn[p].arg = ArgJson(AGENT_TURN_COMPLETE, Str(FragProse), CwdPQ)
    /\ turn[p].files = <<>>
    /\ Len(turn[p].sent) = 1
    /\ turn[p].sent[1].params.entityType = "app"
    /\ turn[p].sent[1].params.project = Str(<<"q">>)

\* C10: a turn that passes the gates and extracts n >= 1 records sends
\* exactly n heartbeats, the i-th for the i-th record: entity type file,
\* entity the record's path, isWrite the record's isWrite, project folder cwd
C10_FileHeartbeats ==
  \A p \in Turns :
    LET t   == turn[p]
        cwd == t.arg.value.cwd
    IN (Live(t) /\ Len(t.files) >= 1) =>
         /\ Dispatched(t) => Len(t.sent) = Len(t.files)
         /\ Len(t.sent) <= Len(t.files)
         /\ \A i \in 1..Len(t.sent) :
              /\ t.sent[i].params.entityType = "file"
              /\ t.sent[i].params.entity = t.files[i].path
              /\ t.sent[i].params.isWrite = <<t.files[i].isWrite>>
              /\ t.sent[i].params.projectFolder = Str(cwd)

\* C10, witness: two records, a write and a read, and their two heartbeats
C10_Witness ==
  \E p \in Turns :
    /\ turn[p].pc = "done"
    /\ Len(turn[p].files) = 2
    /\ turn[p].files[1].isWrite /\ ~turn[p].files[2].isWrite
    /\ Len(turn[p].sent) = 2
    /\ turn[p].sent[1].params.isWrite = <<TRUE>>
    /\ turn[p].sent[2].params.isWrite = <<FALSE>>
    /\ turn[p].sent[1].params.entity = turn[p].files[1].path
    /\ turn[p].sent[2].params.entity = turn[p].files[2].path

\* the heartbeats of t that failed
FailedSends(t) == { i \in 1..Len(t.sent) : ~t.sent[i].ok }

\* C11: a heartbeat that fails neither stops the heartbeats of the files
\* after it nor aborts the turn: a turn that extracted files and has ended
\* has sent one heartbeat per file, whichever of them failed, has run the
\* state update and has ended cleanly
C11_FailureIsolated ==
  \A p \in Turns :
    LET t == turn[p] IN
      (Live(t) /\ HasStage(t.log, "extract")) =>
        /\ \A i \in FailedSends(t) :
             \/ i = Len(t.sent) /\ t.pc \in {"dispatch", "update"}
             \/ i < Len(t.files) => Len(t.sent) > i
        /\ t.pc = "done" =>
             /\ Len(t.sent) = (IF Len(t.files) = 0 THEN 1 ELSE Len(t.files))
             /\ HasStage(t.log, "update")
             /\ t.exit = "clean"

\* C11, witness: the first of two heartbeats failed, the second was sent,
\* the turn ended cleanly
C11_Witness ==
  \E p \in Turns :
    /\ turn[p].pc = "done"
    /\ Len(turn[p].files) = 2
    /\ Len(turn[p].sent) = 2
    /\ ~turn[p].sent[1].ok
    /\ turn[p].sent[2].ok
    /\ turn[p].exit = "clean"

\* the paths that the expressions of extractFilePaths yield
PathHits(text, cwd) ==
  UNION { HitsOf(PATTERNS[k], text, cwd) : k \in 1..Len(PATTERNS) }

\* extractFiles was called, on any message
FilesReturned == ~IsNull(exFiles)

\* extractFilePaths was called
PathsCalled == ~IsNull(exPaths)

\* the message is null or the empty string
NoText(message) == IsNull(message) \/ Len(TextOf(message)) = 0

\* C12: for a null or empty message, and for a message in which no
\* expression yields a valid path, extractFiles and extractFilePaths return
\* the empty sequence
C12_EmptyExtraction ==
  /\ (FilesReturned /\ ( \/ NoText(exMessage)
                         \/ WriteHits(TextOf(exMessage), exCwd)
                              \cup ReadHits(TextOf(exMessage), exCwd) = {} ))
       => exFiles = Str(<<>>)
  /\ (PathsCalled /\ ( \/ NoText(exMessage)
                       \/ PathHits(TextOf(exMessage), exCwd) = {} ))
       => exPaths = Str(<<>>)

\* C12, witness: both functions were called on the null message
C12_Witness ==
  /\ IsNull(exMessage)
  /\ FilesReturned
  /\ PathsCalled
  /\ exFiles = Str(<<>>)
  /\ exPaths = Str(<<>>)

\* C12, a message with a URL and a quoted string of invalid characters
C12_MessageWithoutPath ==
  /\ exMessage = Str(FragUrl \o FragBadChar)
  /\ FilesCalled
  /\ PathsCalled
  /\ exFiles = Str(<<>>)
  /\ exPaths = Str(<<>>)

\* no value occurs twice in the sequence
NoDuplicate(seq) ==
  \A i \in 1..Len(seq), j \in 1..Len(seq) : seq[i] = seq[j] => i = j

\* the paths of a sequence of records
PathsOf(files) == [i \in 1..Len(files) |-> files[i].path]

\* the number of valid captures, over the expressions of exprs, that
\* normalize to path
Mentions(exprs, text, cwd, path) ==
  LET capsOf(k) == MatchAll(exprs[k], text) IN
    Cardinality({ <<k, i>> \in (1..Len(exprs)) \X (1..Len(text)) :
                    /\ i <= Len(capsOf(k))
                    /\ Len(capsOf(k)[i]) > 0
                    /\ isValidFilePath(capsOf(k)[i])
                    /\ normalizePath(capsOf(k)[i], cwd) = path })

\* C13: no result of extractFiles or of extractFilePaths holds the same
\* normalized path twice, however often and in whichever spelling the
\* message mentions the file
C13_NoDuplicatePath ==
  /\ FilesReturned => NoDuplicate(PathsOf(TextOf(exFiles)))
  /\ PathsCalled => NoDuplicate(TextOf(exPaths))

\* C13, witness: ../a.ts in backticks and /p/a.ts after a write verb, from
\* /p/q, are several mentions of one file and one entry of each result
C13_Witness ==
  /\ exMessage = Str(FragTickUp \o FragWroteAbs)
  /\ exCwd = CwdPQ
  /\ Mentions(<<WRITE_PATTERN>> \o READ_PATTERNS, TextOf(exMessage), exCwd, PathA) >= 2
  /\ Mentions(PATTERNS, TextOf(exMessage), exCwd, PathA) >= 2
  /\ exFiles = Str(<<[path |-> PathA, isWrite |-> TRUE]>>)
  /\ exPaths = Str(<<PathA>>)

PathB == <<"/", "p", "/", "b", ".", "m", "d">>

\* C14: a record of extractFiles has isWrite = TRUE exactly when a valid
\* capture of the write-verb expression normalizes to its path; a path that
\* only code-block headers, backticks, quotes or the read verbs yield has a
\* record with isWrite = FALSE
C14_WriteIffWriteVerb ==
  FilesCalled =>
    LET text  == TextOf(exMessage)
        files == TextOf(exFiles)
    IN /\ \A i \in 1..Len(files) :
            files[i].isWrite <=> files[i].path \in WriteHits(text, exCwd)
       /\ \A path \in ReadHits(text, exCwd) \ WriteHits(text, exCwd) :
            \E i \in 1..Len(files) :
              files[i].path = path /\ files[i].isWrite = FALSE

\* C14, witness: a.ts after Created and in backticks is a write, b.md in
\* quotes is a read
C14_Witness ==
  /\ FilesCalled
  /\ exMessage = Str(FragCreated \o FragQuote)
  /\ exCwd = CwdP
  /\ WriteHits(TextOf(exMessage), exCwd) = {PathA}
  /\ ReadHits(TextOf(exMessage), exCwd) = {PathA, PathB}
  /\ TextOf(exFiles) = <<[path |-> PathA, isWrite |-> TRUE],
                         [path |-> PathB, isWrite |-> FALSE]>>

\* the captures of the expressions of exprs in text
CapturesOf(exprs, text) ==
  UNION { { MatchAll(exprs[k], text)[i] :
              i \in 1..Len(MatchAll(exprs[k], text)) } : k \in 1..Len(exprs) }

\* the expressions of extractFiles
FILE_PATTERNS == <<WRITE_PATTERN>> \o READ_PATTERNS

\* the extension of a raw match: what follows the last dot of its last
\* segment, a leading dot of the segment not counted
ExtensionOf(raw) ==
  LET dotExt == Extname(raw) IN SubSeq(dotExt, 2, Len(dotExt))

\* the four checks of a raw match: not empty, no URL scheme marker, none of
\* the characters < > | ? *, an extension of 1 to 6 characters
PassesChecks(raw) ==
  /\ Len(raw) > 0
  /\ ~Includes(raw, <<":", "/", "/">>)
  /\ \A i \in 1..Len(raw) : raw[i] \notin {"<", ">", "|", "?", "*"}
  /\ Len(ExtensionOf(raw)) \in 1..6

\* every path of paths is the normalization of a capture that passes the
\* checks, and every capture that passes the checks has its path in paths
AcceptedAre(paths, exprs, text, cwd) ==
  LET good == { raw \in CapturesOf(exprs, text) : PassesChecks(raw) } IN
    /\ \A i \in 1..Len(paths) :
         \E raw \in good : normalizePath(raw, cwd) = paths[i]
    /\ \A raw \in good :
         \E i \in 1..Len(paths) : paths[i] = normalizePath(raw, cwd)

\* C15: every returned path comes from a raw match that is not empty, has
\* no ://, has none of < > | ? * and has an extension of 1 to 6 characters;
\* and every raw match that passes the four checks is accepted, whether or
\* not its extension is one of VALID_EXTENSIONS
C15_Validation ==
  /\ FilesCalled =>
       AcceptedAre(PathsOf(TextOf(exFiles)), FILE_PATTERNS,
                   TextOf(exMessage), exCwd)
  /\ (PathsCalled /\ ~NoText(exMessage)) =>
       AcceptedAre(TextOf(exPaths), PATTERNS, TextOf(exMessage), exCwd)

PathCEdit == <<"/", "p", "/", "c", ".", "E", "d", "i", "t">>

\* C15, witness: the URL after List is a raw match and is rejected; c.Edit,
\* whose extension is not tracked, is accepted
C15_Witness ==
  /\ FilesCalled
  /\ PathsCalled
  /\ exMessage = Str(FragUrl \o FragVerbExt)
  /\ exCwd = CwdP
  /\ \E raw \in CapturesOf(FILE_PATTERNS, TextOf(exMessage)) :
       Includes(raw, <<":", "/", "/">>)
  /\ ~isTrackableExtension(PathCEdit)
  /\ exFiles = Str(<<[path |-> PathCEdit, isWrite |-> FALSE]>>)
  /\ exPaths = Str(<<PathCEdit>>)

\* the path has no empty, . or .. segment after its root
Canonical(path) ==
  /\ IsAbsolute(path)
  /\ Len(path) > 1
  /\ \A seg \in { SplitSlash(SubSeq(path, 2, Len(path)))[i] :
                    i \in 1..Len(SplitSlash(SubSeq(path, 2, Len(path)))) } :
       seg \notin { <<>>, <<".">>, <<".", ".">> }

\* what the claim says a raw match is returned as: trimmed, then
\* canonicalized as it is when absolute, after cwd and a slash when relative
ExpectedPath(raw, cwd) ==
  LET p == Trim(raw) IN
    IF Len(p) > 0 /\ p[1] = "/" THEN Normalize(p)
    ELSE Normalize(cwd \o <<"/">> \o p)

\* every path of paths is the expected path of a capture that passes the
\* checks, is absolute and canonical; and an absolute capture is returned
\* as its canonical form, which does not depend on cwd
NormalizedAre(paths, exprs, text, cwd) ==
  LET good == { raw \in CapturesOf(exprs, text) : PassesChecks(raw) } IN
    /\ \A i \in 1..Len(paths) :
         /\ \E raw \in good : paths[i] = ExpectedPath(raw, cwd)
         /\ Canonical(paths[i])
    /\ \A raw \in good :
         IsAbsolute(Trim(raw)) =>
           \E i \in 1..Len(paths) : paths[i] = Normalize(Trim(raw))

CacheNameOf(pair) ==
  CASE pair = <<"darwin", "x64">>   -> <<"wakatime-cli", "-", "darwin", "-", "amd64">>
    [] pair = <<"darwin", "arm64">> -> <<"wakatime-cli", "-", "darwin", "-", "arm64">>
    [] pair = <<"linux", "x64">>    -> <<"wakatime-cli", "-", "linux", "-", "amd64">>
    [] pair = <<"linux", "arm64">>  -> <<"wakatime-cli", "-", "linux", "-", "arm64">>
    [] pair = <<"linux", "arm">>    -> <<"wakatime-cli", "-", "linux", "-", "arm">>
    [] pair = <<"win32", "x64">>    -> <<"wakatime-cli", "-", "windows", "-", "amd64", ".exe">>
    [] pair = <<"win32", "ia32">>   -> <<"wakatime-cli", "-", "windows", "-", "386", ".exe">>

\* the search-path hit of the environment
HitOf(env) ==
  <<SearchPathDir,
    IF env.pair[1] = "win32" THEN <<"wakatime-cli", ".exe">>
    ELSE <<"wakatime-cli">> >>

\* C17: getCliLocation returns the search-path hit for wakatime-cli
\* (wakatime-cli.exe on Windows) when there is one, and otherwise
\* ~/.wakatime/wakatime-cli-{os}-{arch} with the listed names; the cached
\* binary is never returned while there is a search-path hit
C17_Locate ==
  deps.op = "getCliLocation" =>
    LET env == deps.env
        loc == deps.outcome.value
    IN /\ ~deps.outcome.threw
       /\ env.which = "hit" =>
            /\ loc = Str(HitOf(env))
            /\ TextOf(loc)[1] # HomeDir
       /\ (env.which # "hit" /\ env.pair \in SupportedPairs) =>
            loc = Str(<<HomeDir, ".wakatime", CacheNameOf(env.pair)>>)

\* C17, witness: on 32-bit Windows with no search-path hit the location is
\* ~/.wakatime/wakatime-cli-windows-386.exe
C17_Witness ==
  /\ deps.op = "getCliLocation"
  /\ deps.env.pair = <<"win32", "ia32">>
  /\ deps.env.which = "none"
  /\ deps.outcome =
       Returned(Str(<<HomeDir, ".wakatime",
                      <<"wakatime-cli", "-", "windows", "-", "386", ".exe">> >>))

\* C17, a search-path hit on Windows
C17_HitOnWindows ==
  /\ deps.op = "getCliLocation"
  /\ deps.env.pair[1] = "win32"
  /\ deps.env.which = "hit"
  /\ deps.outcome = Returned(Str(<<SearchPathDir, <<"wakatime-cli", ".exe">> >>))

\* C18: no call of the resolver raises a fault: a search-path probe that
\* fails gives undefined (not found), and ensureCliInstalled returns false
\* (unavailable) when the binary is not installed and its download fails
\* for a network error, an unsupported platform or a write failure
C18_NoFault ==
  /\ ~deps.outcome.threw
  /\ (deps.op = "getCliLocationGlobal" /\ deps.env.which = "throws") =>
       deps.outcome = Returned(Null)
  /\ deps.op = "ensureCliInstalled" =>
       /\ deps.outcome.value \in BOOLEAN
       /\ (deps.env.which # "hit" /\ ~deps.env.onDisk) =>
            /\ deps.outcome = Returned(FALSE)
            /\ deps.acquired # "ok" \/ deps.env.pair \notin SupportedPairs

\* C18, witness: the probe fails, the binary is not on disk and the
\* download ends in a network error: ensureCliInstalled returns false
C18_Witness ==
  /\ deps.op = "ensureCliInstalled"
  /\ deps.env.which = "throws"
  /\ ~deps.env.onDisk
  /\ deps.acquired = "network error"
  /\ deps.outcome = Returned(FALSE)

(***************************************************************************)
(* Properties of the notify hook.  The entries of a config file are what    *)
(* TOML says they are: a comment may follow a value and an array may span   *)
(* lines.                                                                  *)
(***************************************************************************)
\* the notify entries of each initial text, read as TOML (a string as a
\* list of one entry)
TomlNotify(text) ==
  CASE text = CfgHooks            -> <<HookA, HookB>>
    [] text = CfgInstalled        -> <<HookA, PluginCommand>>
    [] text = CfgOnly             -> <<PluginCommand>>
    [] text = CfgString           -> <<HookA>>
    [] text = CfgOther            -> <<>>
    [] text = CfgComment          -> <<HookA>>
    [] text = CfgInstalledMultiLine -> <<PluginCommand>>
    [] text = CfgMultiLine        -> <<HookA>>
    [] text = CfgKeyComment       -> <<>>

\* the initial texts that parseToml reads as TOML does: the value on the
\* line of its key, nothing after it
PlainTexts == {CfgHooks, CfgInstalled, CfgOnly, CfgString, CfgOther}

\* the entries of the initial state files of ~/.codex
EntriesOf(files) ==
  IF IsNull(files.file) THEN <<>> ELSE TomlNotify(TextOf(files.file))

\* files is an initial state of ~/.codex whose file, if any, can be read
\* and is one of texts
StartsFrom(files, texts) ==
  IsNull(files.file) \/ (files.readable /\ TextOf(files.file) \in texts)

\* the line that sets notify to entries
NotifyLine(entries) ==
  NotifyKey \o <<" ", "=", " ">>
    \o <<"[">>
    \o JoinWith([i \in 1..Len(entries) |-> <<"\"">> \o entries[i] \o <<"\"">>],
                <<",", " ">>)
    \o <<"]">>

\* the lines of text that set the key notify
NotifyLinesOf(text) ==
  SelectSeq(SplitOn(text, "\n"), LAMBDA line : StartsWith(line, NotifyKey))

\* the last call was installHook, on files of texts without the entry
\* codex-wakatime, and it wrote the old entries followed by codex-wakatime
InstallAppendsOn(texts) ==
  ( /\ codex.op = "install"
    /\ StartsFrom(codex.before, texts)
    /\ ~hasNotifyEntry(EntriesOf(codex.before), PluginCommand) )
  => /\ ~IsNull(codex.wrote)
     /\ NotifyLinesOf(TextOf(codex.wrote))
          = <<NotifyLine(Append(EntriesOf(codex.before), PluginCommand))>>

\* C19: when codex-wakatime is not among the notify entries of the config,
\* installHook writes a config whose notify list is the old entries, in
\* their order, followed by codex-wakatime; no file and no notify key give
\* the list of codex-wakatime alone, a string counts as one entry
C19_InstallAppends == InstallAppendsOn(ConfigTexts)

\* C19 on the files that parseToml reads as TOML does
C19_OnPlainFiles == InstallAppendsOn(PlainTexts)

\* C19_OnPlainFiles is reached: the file of the install test
C19_PlainReached ==
  /\ codex.op = "install"
  /\ codex.before.file = Str(CfgHooks)
  /\ codex.before.readable
  /\ NotifyLinesOf(TextOf(codex.wrote))
       = <<NotifyLine(<<HookA, HookB, PluginCommand>>)>>

\* the number of places of text at which sub starts
Occurrences(text, sub) ==
  Cardinality({ i \in 1..Len(text) :
                  /\ i + Len(sub) - 1 <= Len(text)
                  /\ SubSeq(text, i, i + Len(sub) - 1) = sub })

\* the last call was installHook on a file of texts that has the entry, and
\* it wrote nothing; and the file holds the entry "codex-wakatime" at most
\* once
InstallIdempotentOn(texts) ==
  /\ ( /\ codex.op = "install"
       /\ StartsFrom(codex.before, texts)
       /\ hasNotifyEntry(EntriesOf(codex.before), PluginCommand) )
     => IsNull(codex.wrote)
  /\ ( /\ ~IsNull(codex.files.file)
       /\ codex.calls > 0 )
     => Occurrences(TextOf(codex.files.file),
                    <<"\"">> \o PluginCommand \o <<"\"">>) <= 1

\* C20: installHook writes nothing when codex-wakatime is already among
\* the notify entries, and after any sequence of installHook and
\* uninstallHook calls, from a config that holds it at most once, notify
\* holds codex-wakatime at most once
C20_InstallIdempotent == InstallIdempotentOn(ConfigTexts)

\* C20 on the files that parseToml reads as TOML does
C20_OnPlainFiles == InstallIdempotentOn(PlainTexts)

\* C20_OnPlainFiles is reached: the file of the install test that holds the
\* entry, and a second installHook after a first
C20_PlainReached ==
  /\ codex.op = "install"
  /\ codex.calls = 2
  /\ codex.before.file = Str(CfgInstalled)
  /\ IsNull(codex.wrote)


\* the last call was uninstallHook on files of texts: with the entry
\* codex-wakatime it wrote the other entries in their order, and no notify
\* key when there is no other entry; without the entry, and without a file,
\* it wrote nothing
UninstallRemovesOn(texts) ==
  ( /\ codex.op = "uninstall"
    /\ StartsFrom(codex.before, texts) )
  => LET entries == EntriesOf(codex.before)
         others  == removeNotifyEntry(entries, PluginCommand)
     IN IF hasNotifyEntry(entries, PluginCommand)
        THEN /\ ~IsNull(codex.wrote)
             /\ NotifyLinesOf(TextOf(codex.wrote))
                  = (IF Len(others) = 0 THEN <<>> ELSE <<NotifyLine(others)>>)
        ELSE /\ IsNull(codex.wrote)
             /\ codex.files = codex.before

\* C21: when codex-wakatime is among the notify entries, uninstallHook
\* writes a config whose notify list is the other entries in their previous
\* order, and that has no notify key when no other entry remains; when
\* codex-wakatime is not configured, or there is no config file,
\* uninstallHook writes nothing
C21_UninstallRemoves == UninstallRemovesOn(ConfigTexts)

\* C21 on the files that parseToml reads as TOML does
C21_OnPlainFiles == UninstallRemovesOn(PlainTexts)

\* C21_OnPlainFiles is reached: the file of the uninstall test, from which
\* hook-a remains
C21_PlainReached ==
  /\ codex.op = "uninstall"
  /\ codex.before.file = Str(CfgInstalled)
  /\ codex.before.readable
  /\ NotifyLinesOf(TextOf(codex.wrote)) = <<NotifyLine(<<HookA>>)>>

(***************************************************************************)
(* Properties of the orchestrator: the state update, the subprocesses, the  *)
(* absent message.                                                         *)
(***************************************************************************)
\* every subprocess of t has exited, and every one of them failed
AllFailed(t) ==
  /\ Len(t.sent) > 0
  /\ t.running = {}
  /\ \A i \in 1..Len(t.sent) : ~t.sent[i].ok

\* C22, as claimed: the persisted timestamp is updated after a successful
\* report: a turn in which every dispatch fails leaves lastHeartbeatAt as
\* it was, so that the next invocation is not suppressed
C22_UpdateOnlyAfterSuccess ==
  \A p \in Turns :
    LET t == turn[p] IN
      (Live(t) /\ t.pc = "done" /\ AllFailed(t)) =>
        /\ t.wrote = <<>>
        /\ stateFile = t.seen

\* C22, as amended: the persisted timestamp is updated once the heartbeats
\* of the turn have been issued, whatever their outcome: a turn that has
\* dispatched runs the state update before it ends, also when every
\* dispatch fails, and a write that succeeds sets lastHeartbeatAt to the
\* time of the update, not before the time of any dispatch
C22_UpdateAfterDispatch ==
  \A p \in Turns :
    LET t == turn[p] IN
      /\ (Live(t) /\ t.pc = "done" /\ Len(t.sent) > 0) =>
           HasStage(t.log, "update")
      /\ (Live(t) /\ Len(t.wrote) > 0) =>
           /\ Len(t.sent) > 0
           /\ stateFile = FileWith(LastWrote(t))
           /\ \A i \in 1..Len(t.sentAt) : t.sentAt[i] <= LastWrote(t)

\* C22, witness: both heartbeats of a turn failed and the turn recorded its
\* time in the rate-limit file
C22_Witness ==
  \E p \in Turns :
    /\ turn[p].pc = "done"
    /\ Len(turn[p].sent) = 2
    /\ AllFailed(turn[p])
    /\ Len(turn[p].wrote) = 1
    /\ stateFile = FileWith(LastWrote(turn[p]))

\* the number of heartbeats of a turn that extracted t.files
HeartbeatsOf(t) == IF Len(t.files) = 0 THEN 1 ELSE Len(t.files)

AbsentMessage(t) ==
  /\ t.arg.kind = "json"
  /\ t.arg.value.type = AGENT_TURN_COMPLETE
  /\ IsNull(t.arg.value.message)

\* C24, as claimed: a notification of the recognized type without an
\* assistant message is an input error that ends the turn as the other
\* input errors do: no stage is run, no heartbeat is dispatched, and the
\* turn ends without a non-zero exit
C24_AbsentMessageEnds ==
  \A p \in Turns :
    LET t == turn[p] IN
      (Live(t) /\ AbsentMessage(t)) =>
        /\ t.sent = <<>>
        /\ ~HasStage(t.log, "dispatch")
        /\ t.pc = "done" => t.exit = "clean"

\* C24, as amended: a notification of the recognized type without an
\* assistant message is handled as one with an empty message: the turn
\* goes through the rate check and the dependency gate, extracts no file,
\* dispatches one heartbeat for the project of cwd, updates the state and
\* ends without a non-zero exit
C24_AbsentMessageFallback ==
  \A p \in Turns :
    LET t   == turn[p]
        cwd == t.arg.value.cwd
    IN (Live(t) /\ AbsentMessage(t)) =>
         /\ t.files = <<>>
         /\ t.pc \notin {"main", "rate"} => HasStage(t.log, "rate")
         /\ (t.pc = "done" /\ t.due /\ t.cli = "available") =>
              /\ t.log = <<"rate", "ensure", "extract", "dispatch", "update">>
              /\ Len(t.sent) = 1
              /\ t.sent[1].params.entityType = "app"
              /\ t.sent[1].params.entity = cwd
              /\ t.sent[1].params.project = Str(<<"q">>)
         /\ t.pc = "done" => t.exit = "clean"

\* C24, witness: a turn without an assistant message has sent the heartbeat
\* of the project and has ended
C24_Witness ==
  \E p \in Turns :
    /\ turn[p].pc = "done"
    /\ AbsentMessage(turn[p])
    /\ Len(turn[p].sent) = 1
    /\ turn[p].sent[1].params.entityType = "app"
    /\ turn[p].exit = "clean"

(***************************************************************************)
(* Properties of the resolver: the location kept in memory.                *)
(***************************************************************************)
\* C25: within one instance getCliLocation probes the search path at most
\* once: the first call probes and keeps the location, every later call
\* returns that location without a probe, and a new instance starts with
\* no location kept and no probe made
C25_ProbeOnce ==
  /\ deps.locateProbes <= 1
  /\ deps.locateProbes = 1 <=> ~IsNull(deps.cliLocation)
  /\ \A i \in 1..Len(deps.locates) :
       /\ deps.locateProbes = 1
       /\ deps.locates[i] = Returned(deps.cliLocation)
  /\ deps.op = "new" =>
       /\ IsNull(deps.cliLocation)
       /\ deps.locateProbes = 0
       /\ deps.locates = <<>>

\* C25, witness: three calls of getCliLocation with no search-path hit, as
\* in the test, returned one location after one probe
C25_Witness ==
  /\ deps.env.which = "none"
  /\ Len(deps.locates) = 3
  /\ deps.probes = 1
  /\ deps.locates[1] = deps.locates[3]
  /\ ~IsNull(deps.locates[1].value)

\* C25, a new instance after a located one: nothing kept
C25_NewInstanceReached ==
  /\ deps.op = "new"
  /\ deps.instances = 2
  /\ deps.calls = 2
  /\ IsNull(deps.cliLocation)

(***************************************************************************)
(* Properties of the extractor: the two entry points, the order.           *)
(***************************************************************************)
\* the elements of a sequence
Range(seq) == { seq[i] : i \in 1..Len(seq) }

\* C26: for every message and cwd, extractFilePaths returns the paths of
\* the records that extractFiles returns: the same normalized paths, each
\* once, without the flag
C26_SamePaths ==
  (~IsNull(exFiles) /\ ~IsNull(exPaths)) =>
    /\ Range(TextOf(exPaths)) = Range(PathsOf(TextOf(exFiles)))
    /\ Len(TextOf(exPaths)) = Len(TextOf(exFiles))

\* C26 away from the failing message: a message of a write verb and a path
\* in backticks, on which the two entry points agree
C26_AgreeReached ==
  /\ exMessage = Str(FragCreated \o FragReadTick)
  /\ ~IsNull(exFiles)
  /\ ~IsNull(exPaths)
  /\ Range(TextOf(exPaths)) = Range(PathsOf(TextOf(exFiles)))
  /\ Len(TextOf(exPaths)) = 2

\* the classes of mentions in the order of detection: the write verbs, then
\* code-block headers, backticks, quotes and read verbs
DetectionOrder == <<"write", "codeblock", "backtick", "quote", "read">>

\* the valid captures of one expression in textual order, each as its
\* normalized path, Null for a capture that is no file path
DetectedBy(kind, text, cwd) ==
  LET caps == MatchAll(kind, text) IN
    [i \in 1..Len(caps) |->
       IF isValidFilePath(caps[i]) THEN Str(normalizePath(caps[i], cwd))
       ELSE Null]

\* the place of the first mention of path by the expression kind, 0 when it
\* has none
FirstMention(kind, text, cwd, path) ==
  LET seq  == DetectedBy(kind, text, cwd)
      hits == { i \in 1..Len(seq) : seq[i] = Str(path) }
  IN IF hits = {} THEN 0 ELSE CHOOSE i \in hits : \A j \in hits : i <= j

\* the first class of DetectionOrder that mentions path, 0 when none does
FirstClass(text, cwd, path) ==
  LET ks == { k \in 1..Len(DetectionOrder) :
                FirstMention(DetectionOrder[k], text, cwd, path) > 0 }
  IN IF ks = {} THEN 0 ELSE CHOOSE k \in ks : \A j \in ks : k <= j

\* path a is detected before path b: in an earlier class, or in the same
\* class and earlier in the text
DetectedBefore(text, cwd, a, b) ==
  LET ka == FirstClass(text, cwd, a)
      kb == FirstClass(text, cwd, b)
  IN \/ ka < kb
     \/ /\ ka = kb
        /\ FirstMention(DetectionOrder[ka], text, cwd, a)
             < FirstMention(DetectionOrder[kb], text, cwd, b)

\* C27: extractFiles returns its records in the order of first detection,
\* the write pass before the read pass: every write record is before every
\* read record, the write records are in the textual order of their first
\* write-verb match, and the read records are in the order code-block
\* headers, backticks, quotes, read verbs, and in textual order within one
\* of these
C27_DetectionOrder ==
  FilesCalled =>
    LET files == TextOf(exFiles)
        text  == TextOf(exMessage)
    IN /\ \A i \in 1..Len(files) :
            /\ FirstClass(text, exCwd, files[i].path) > 0
            /\ files[i].isWrite <=> FirstClass(text, exCwd, files[i].path) = 1
       /\ \A i \in 1..Len(files), j \in 1..Len(files) :
            i < j =>
              /\ files[j].isWrite => files[i].isWrite
              /\ DetectedBefore(text, exCwd, files[i].path, files[j].path)

\* C27, witness: a quoted path and then a code-block header: the record of
\* the header is first; both are read records
C27_Witness ==
  /\ exMessage = Str(FragQuote \o FragBlock)
  /\ exCwd = CwdP
  /\ FilesCalled
  /\ PathsOf(TextOf(exFiles))
       = << <<"/", "p", "/", "a", ".", "t", "s">>,
            <<"/", "p", "/", "b", ".", "m", "d">> >>
  /\ \A i \in 1..2 : ~TextOf(exFiles)[i].isWrite

\* C27, a read mention and then a write mention: the write record is first
C27_WriteFirstReached ==
  /\ exMessage = Str(FragReadTick \o FragEdit)
  /\ exCwd = CwdP
  /\ FilesCalled
  /\ TextOf(exFiles)
       = << [path |-> <<"/", "p", "/", "a", ".", "t", "s">>, isWrite |-> TRUE],
            [path |-> <<"/", "p", "/", "b", ".", "m", "d">>, isWrite |-> FALSE] >>

(***************************************************************************)
(* Properties of the orchestrator: invocations that overlap.               *)
(***************************************************************************)
\* the turns p and q have both dispatched, and a heartbeat of the one was
\* started less than 60 s from a heartbeat of the other
DispatchedWithin60(p, q) ==
  \E i \in 1..Len(turn[p].sentAt), j \in 1..Len(turn[q].sentAt) :
    /\ turn[q].sentAt[j] - turn[p].sentAt[i] < 60
    /\ turn[p].sentAt[i] - turn[q].sentAt[j] < 60

\* two rate checks that read the same state agree when made at one time,
\* and the later finds the report due when the earlier did
ChecksAgree ==
  \A p \in Turns, q \in Turns :
    ( /\ Live(turn[p]) /\ Live(turn[q])
      /\ HasStage(turn[p].log, "rate") /\ HasStage(turn[q].log, "rate")
      /\ turn[p].seen = turn[q].seen
      /\ turn[p].checkedAt <= turn[q].checkedAt
      /\ turn[p].due )
    => turn[q].due

C28_SequentialReached ==
  /\ ~turn[1].overlapped /\ ~turn[2].overlapped
  /\ Len(turn[1].wrote) = 1
  /\ Len(turn[1].sentAt) = 1 /\ Len(turn[2].sentAt) = 1
  /\ turn[2].sentAt[1] = turn[1].sentAt[1] + 60

\* the keys of a config text, each with its section ("" at the top level)
\* and the text of its value, as the lines key = value of the text give them
RECURSIVE KeyValuesFrom(_, _)
KeyValuesFrom(lines, section) ==
  IF Len(lines) = 0 THEN {}
  ELSE
    LET line == Trim(Head(lines))
        rest == Tail(lines)
    IN IF StartsWith(line, <<"[">>) /\ EndsWith(line, <<"]">>)
       THEN KeyValuesFrom(rest, Inner(line))
       ELSE IF EqualPos(line) > 1 /\ EqualPos(line) <= Len(line)
       THEN { << section,
                 Trim(SubSeq(line, 1, EqualPos(line) - 1)),
                 Trim(SubSeq(line, EqualPos(line) + 1, Len(line))) >> }
              \cup KeyValuesFrom(rest, section)
       ELSE KeyValuesFrom(rest, section)

KeyValuesOf(text) == KeyValuesFrom(SplitOn(text, "\n"), <<>>)

\* the keys other than notify of each initial text, read as TOML
TomlOthers(text) ==
  CASE text = CfgOther ->
         { << <<>>, <<"m", "o", "d", "e", "l">>, <<"\"", "o", "3", "\"">> >>,
           << <<"t", "u", "i">>,
              <<"n", "o", "t", "i", "f", "i", "c", "a", "t", "i", "o", "n", "s">>,
              <<"t", "r", "u", "e">> >> }
    [] text = CfgKeyComment ->
         { << <<>>, <<"m", "o", "d", "e", "l">>, <<"\"", "o", "3", "\"">> >> }
    [] OTHER -> {}

\* the last call wrote the config, from an initial file of texts that is
\* readable when mustRead, and every key of that file but notify is in the
\* written text with its value
KeepsOthersOn(texts, mustRead) ==
  ( /\ codex.calls > 0
    /\ ~IsNull(codex.wrote)
    /\ ~IsNull(codex.before.file)
    /\ TextOf(codex.before.file) \in texts
    /\ mustRead => codex.before.readable )
  => TomlOthers(TextOf(codex.before.file))
       \subseteq KeyValuesOf(TextOf(codex.wrote))

\* C29: installHook and uninstallHook change the top-level notify entry
\* only: whenever either writes the config file, every other top-level key
\* and every key of a section of the existing file is in the written config
\* with the same value, also when the existing file cannot be read or
\* parsed
C29_OnlyNotifyChanges == KeepsOthersOn(ConfigTexts, FALSE)

\* C29 on the files that can be read and that parseToml reads as TOML does
C29_OnPlainFiles == KeepsOthersOn(PlainTexts, TRUE)

\* C29_OnPlainFiles is reached: a key and a section are written back
C29_PlainReached ==
  /\ codex.op = "install"
  /\ codex.before.file = Str(CfgOther)
  /\ codex.before.readable
  /\ ~IsNull(codex.wrote)
  /\ Cardinality(KeyValuesOf(TextOf(codex.wrote))) = 3

\* C29 on the file with a comment after a value, when it can be read
C29_OnCommentedFile == KeepsOthersOn({CfgKeyComment}, TRUE)
====
